---- MODULE Spec2Model ----
(***************************************************************************)
(* Verification model of the SEO report generation engine:                 *)
(*   - RateLimiter (token bucket) of lib/seranking.ts                      *)
(*   - SeRankingClient.request (gateway: classification, call log)         *)
(*   - generateReport (phased orchestrator) and the POST /api/reports job  *)
(* Three specifications share the module, one per sub-machine:             *)
(*   LimiterSpec, GatewaySpec and RunSpec.                                 *)
(***************************************************************************)
EXTENDS Integers, Naturals, Sequences, FiniteSets, TLC

\* ------------------------------------------------------------------------
\* Bounds of the model
\* ------------------------------------------------------------------------
NumCallers == 8
MaxTime == 1000
TickSize == 500
NumRequests == 3
MaxItems == 2
MaxRecords == 3
MaxRows == 2

MaxPrompts == 2

\* ------------------------------------------------------------------------
\* Program constants
\* ------------------------------------------------------------------------
DEFAULT_RATE_LIMIT == 5
\* tokens are kept in thousandths of a token: refillRate = requestsPerSecond / 1000
MsPerSecond == 1000

VARIABLES
  \* --- RateLimiter state (one limiter per client) ---
  now,          \* Date.now(), in ms since the limiter was constructed
  maxTokens,    \* RateLimiter.maxTokens (whole tokens)
  tokens,       \* RateLimiter.tokens, in 1/1000 token
  lastRefill,   \* RateLimiter.lastRefill
  \* --- callers of acquire() ---
  apc,          \* caller -> "idle" | "waiting" | "done" | "rejected"
  submitAt,     \* caller -> time of the acquire() call
  wakeAt,       \* caller -> time the setTimeout is due
  doneAt,       \* caller -> time acquire() resolved
  waited,       \* caller -> TRUE when the caller went through the setTimeout
  \* --- SeRankingClient (gateway) ---
  enableLogging, \* SeRankingClient.enableLogging
  apiLogs,      \* SeRankingClient.apiLogs
  rpc,          \* request -> "idle" | "acquire" | "fetch" | "returned" | "thrown"
  nAcquire,     \* request -> number of rateLimiter.acquire() calls it made
  nFetch,       \* request -> number of fetch() calls it made
  lastCall,     \* the request that settled last: transport outcome and result
  \* --- POST /api/reports and its background job ---
  apiKey,       \* body.apiKey ("" when absent)
  sharedKey,    \* process.env.SE_RANKING_SHARED_API_KEY ("" when unset)
  client,       \* "none" before creation, "null" or "client" afterwards
  httpResponse, \* HTTP response of POST: "none" | "error400" | "accepted"
  jpc,          \* job position: "init" | "scheduled" | "running" | "generated" | "threw" | "finished"
  stored,       \* the report in the store: [status, progress, data]
  \* --- generateReport ---
  gstate,       \* "idle" | "running" | "returned" | "rejected"
  phase,        \* index of the phase whose calls were issued last
  pending,      \* outstanding calls whose results later code depends on
  others,       \* phase -> number of other outstanding calls of that phase
  issued,       \* phase -> number of calls issued for that phase
  results,      \* results of the resolved calls that later code depends on
  failedCalls,  \* the calls of `pending` kind that failed
  otherFailed,  \* TRUE when one of the other calls failed
  rejectCause,  \* why generateReport rejected: "none" | "fetch" | "TypeError"
  report,       \* the compiled ReportData (the sections the properties read)
  \* --- a function of the library called on its own ---
  callArgs,     \* the function and its arguments
  callResult,   \* [done |-> FALSE] before the call returns, [done |-> TRUE, value |-> ...] after
  agg           \* progress of a multi-competitor aggregator: its fetches and its locals

limiterVars == <<now, maxTokens, tokens, lastRefill, apc, submitAt, wakeAt, doneAt, waited>>
gatewayVars == <<enableLogging, apiLogs, rpc, nAcquire, nFetch, lastCall>>
runVars == <<apiKey, sharedKey, client, httpResponse, jpc, stored, gstate, phase, pending,
             others, issued, results, failedCalls, otherFailed, rejectCause, report>>
callVars == <<callArgs, callResult, agg>>
vars == <<now, maxTokens, tokens, lastRefill, apc, submitAt, wakeAt, doneAt, waited,
          enableLogging, apiLogs, rpc, nAcquire, nFetch, lastCall,
          apiKey, sharedKey, client, httpResponse, jpc, stored, gstate, phase, pending,
          others, issued, results, failedCalls, otherFailed, rejectCause, report,
          callArgs, callResult, agg>>

Callers == 1..NumCallers

\* ------------------------------------------------------------------------
\* Arithmetic helpers
\* ------------------------------------------------------------------------
Min(a, b) == IF a <= b THEN a ELSE b

Max(a, b) == IF a >= b THEN a ELSE b

\* Math.ceil(a / b) for a >= 0, b > 0
CeilDiv(a, b) == (a + b - 1) \div b

\* ------------------------------------------------------------------------
\* RateLimiter
\* ------------------------------------------------------------------------
\* new RateLimiter(config?.rateLimit || DEFAULT_RATE_LIMIT): 0 stands for an
\* absent (or zero) rateLimit option
ConfiguredRateLimits == {0, 1, 3}

RateLimiterCapacity(rateLimit) == IF rateLimit = 0 THEN DEFAULT_RATE_LIMIT ELSE rateLimit

\* variant: refill() without the Math.min cap
RefilledTokens_uncapped(tok, last, t, cap) == tok + (t - last) * cap

\* refill(): tokens = min(maxTokens, tokens + elapsed * refillRate)
RefilledTokens(tok, last, t, cap) == Min(cap * MsPerSecond, tok + (t - last) * cap)

\* variant: Math.floor in place of Math.ceil
WaitTime_floor(tok, cap) == (MsPerSecond - tok) \div cap

\* waitTime = Math.ceil((1 - tokens) / refillRate)
WaitTime(tok, cap) == CeilDiv(MsPerSecond - tok, cap)

\* variant: a caller that finds no token is turned away instead of suspended
AcquireBranch_reject(tok) == IF tok >= MsPerSecond THEN "immediate" ELSE "reject"

\* the branch acquire() takes once refill() has run
AcquireBranch(tok) == IF tok >= MsPerSecond THEN "immediate" ELSE "wait"

\* tokens after the setTimeout resolves: this.tokens = 0
TokensAfterWait(tok) == 0

\* longest wait a caller can be given (empty bucket)
LongestWait(cap) == CeilDiv(MsPerSecond, cap)

\* new RateLimiter(...): a full bucket, no caller yet
NewRateLimiter ==
  /\ now = 0
  /\ \E rl \in ConfiguredRateLimits :
        /\ maxTokens = RateLimiterCapacity(rl)
        /\ tokens = RateLimiterCapacity(rl) * MsPerSecond
  /\ lastRefill = 0
  /\ apc = [c \in Callers |-> "idle"]
  /\ submitAt = [c \in Callers |-> 0]
  /\ wakeAt = [c \in Callers |-> 0]
  /\ doneAt = [c \in Callers |-> 0]
  /\ waited = [c \in Callers |-> FALSE]

\* new SeRankingClient(...), no request made yet
NoRequestYet ==
  /\ apiLogs = << >>
  /\ rpc = [r \in Callers |-> "idle"]
  /\ nAcquire = [r \in Callers |-> 0]
  /\ nFetch = [r \in Callers |-> 0]
  /\ lastCall = [req |-> 0]

\* ------------------------------------------------------------------------
\* Phases of generateReport and the calls it makes
\* ------------------------------------------------------------------------
\* one index per group of calls that is awaited together, in program order:
\*  1 worldwide overview        2 phase 2 (Promise.all)     3 phase 2.5
\*  4 competitor metrics        5 multi-competitor analysis 6 top pages worldwide
\*  7 competitor top pages      8 page comparisons          9 discoverBrand
\* 10 AI leaderboard           11 phase 3 (Promise.all)    12 phase 3.5
\* 13 domain paid keywords     14 paid ads for keywords    15 domain paid ads
\* 16 phase 3.7                17 subscription
NumPhases == 17

Phases == 1..NumPhases

\* the calls whose results later code of generateReport depends on
PhaseOf ==
  [c \in {"getDomainOverviewWorldwide", "getBacklinksSummary", "getDomainKeywords",
          "getDomainCompetitors", "getTopPagesByTraffic", "getCompetitorTopPages",
          "discoverBrand", "getAISearchLeaderboard", "getDomainPaidKeywords"} |->
     CASE c = "getDomainOverviewWorldwide" -> 1
       [] c \in {"getBacklinksSummary", "getDomainKeywords", "getDomainCompetitors"} -> 2
       [] c = "getTopPagesByTraffic" -> 3
       [] c = "getCompetitorTopPages" -> 7
       [] c = "discoverBrand" -> 9
       [] c = "getAISearchLeaderboard" -> 10
       [] c = "getDomainPaidKeywords" -> 13]

TrackedCalls == DOMAIN PhaseOf

\* results before any call has resolved (the values are not read before the
\* call that sets them has resolved)
NoResults ==
  [countries |-> << >>, summary |-> "null", keywords |-> "empty",
   nCompetitors |-> 0, malformedCompetitor |-> FALSE, nPages |-> 0,
   nCompetitorPages |-> 0, brand |-> "fallback", nEngines |-> 0, nPaidKeywords |-> 0]

NoReport == [summary |-> "none", topKeywords |-> "none", market |-> "none"]

\* no fetch of an aggregator has settled, nothing is aggregated
NoAggregation ==
  [ours |-> [done |-> FALSE, rows |-> << >>],
   settled |-> << >>, order |-> << >>, aggregated |-> << >>,
   map |-> << >>, calls |-> 0, first |-> << >>]

\* no function has been called on its own
NoCallYet ==
  /\ callArgs = [fn |-> "none"]
  /\ callResult = [done |-> FALSE]
  /\ agg = NoAggregation

NoRunYet ==
  /\ apiKey = ""
  /\ sharedKey = ""
  /\ client = "none"
  /\ httpResponse = "none"
  /\ jpc = "init"
  /\ stored = [status |-> "none", progressStatus |-> "none", progress |-> 0, data |-> "none"]
  /\ gstate = "idle"
  /\ phase = 0
  /\ pending = {}
  /\ others = [p \in Phases |-> 0]
  /\ issued = [p \in Phases |-> 0]
  /\ results = NoResults
  /\ failedCalls = {}
  /\ otherFailed = FALSE
  /\ rejectCause = "none"
  /\ report = NoReport

InitLimiter ==
  /\ NewRateLimiter
  /\ enableLogging = TRUE
  /\ NoRequestYet
  /\ NoRunYet
  /\ NoCallYet

\* acquire(), from the call to the first suspension point (or to the return)
Acquire(c) ==
  /\ apc[c] = "idle"
  /\ \A d \in Callers : d < c => apc[d] # "idle"
  /\ now + LongestWait(maxTokens) <= MaxTime
  /\ LET tok == RefilledTokens(tokens, lastRefill, now, maxTokens)
         br == AcquireBranch(tok)
     IN /\ lastRefill' = now
        /\ submitAt' = [submitAt EXCEPT ![c] = now]
        /\ IF br = "immediate"
             THEN /\ tokens' = tok - MsPerSecond
                  /\ apc' = [apc EXCEPT ![c] = "done"]
                  /\ doneAt' = [doneAt EXCEPT ![c] = now]
                  /\ UNCHANGED <<wakeAt, waited>>
             ELSE IF br = "wait"
             THEN /\ tokens' = tok
                  /\ apc' = [apc EXCEPT ![c] = "waiting"]
                  /\ wakeAt' = [wakeAt EXCEPT ![c] = now + WaitTime(tok, maxTokens)]
                  /\ waited' = [waited EXCEPT ![c] = TRUE]
                  /\ UNCHANGED doneAt
             ELSE /\ tokens' = tok
                  /\ apc' = [apc EXCEPT ![c] = "rejected"]
                  /\ UNCHANGED <<wakeAt, waited, doneAt>>
  /\ UNCHANGED <<now, maxTokens>>

\* acquire(), after the setTimeout fired: tokens = 0; lastRefill = Date.now()
Resume(c) ==
  /\ apc[c] = "waiting"
  /\ now >= wakeAt[c]
  /\ tokens' = TokensAfterWait(tokens)
  /\ lastRefill' = now
  /\ apc' = [apc EXCEPT ![c] = "done"]
  /\ doneAt' = [doneAt EXCEPT ![c] = now]
  /\ UNCHANGED <<now, maxTokens, submitAt, wakeAt, waited>>

\* wall-clock time passes
Tick ==
  /\ now + TickSize <= MaxTime
  /\ now' = now + TickSize
  /\ UNCHANGED <<maxTokens, tokens, lastRefill, apc, submitAt, wakeAt, doneAt, waited>>

\* wall-clock time reaches the due time of the earliest pending timer
AdvanceToTimer ==
  /\ \E c \in Callers :
        /\ apc[c] = "waiting"
        /\ wakeAt[c] > now
        /\ \A d \in Callers : apc[d] = "waiting" => wakeAt[d] >= wakeAt[c] \/ wakeAt[d] <= now
        /\ now' = wakeAt[c]
  /\ UNCHANGED <<maxTokens, tokens, lastRefill, apc, submitAt, wakeAt, doneAt, waited>>

LimiterAcquire(c) == Acquire(c) /\ UNCHANGED <<gatewayVars, runVars, callVars>>

LimiterResume(c) == Resume(c) /\ UNCHANGED <<gatewayVars, runVars, callVars>>

LimiterTick == Tick /\ UNCHANGED <<gatewayVars, runVars, callVars>>

LimiterAdvanceToTimer == AdvanceToTimer /\ UNCHANGED <<gatewayVars, runVars, callVars>>

NextLimiter ==
  \/ \E c \in Callers : LimiterAcquire(c)
  \/ \E c \in Callers : LimiterResume(c)
  \/ LimiterTick
  \/ LimiterAdvanceToTimer

LimiterSpec == InitLimiter /\ [][NextLimiter]_vars

FairLimiterSpec ==
  /\ LimiterSpec
  /\ WF_vars(LimiterTick)
  /\ WF_vars(LimiterAdvanceToTimer)
  /\ \A c \in Callers : WF_vars(LimiterResume(c))

\* ------------------------------------------------------------------------
\* Properties of the RateLimiter
\* ------------------------------------------------------------------------
Submitted == {c \in Callers : apc[c] # "idle"}

Completed == {c \in Callers : apc[c] = "done"}

\* all acquire() calls so far were made at the instant of the first one; the
\* first call always finds the bucket full
SameInstantBurst == \A c \in Submitted : submitAt[c] = submitAt[1]

\* C5: in every reachable state 0 <= tokens <= capacity, whatever the
\* interleaving of acquire calls, resumptions and elapsed times
TokenBucketInvariant == 0 <= tokens /\ tokens <= maxTokens * MsPerSecond

\* C5 witness: a suspended caller has resumed and a later acquire, made after
\* time has passed, went through the lazy refill and took a token
TokenBucketWitness ==
  \E c, d \in Callers :
     /\ apc[c] = "done" /\ waited[c]
     /\ apc[d] = "done" /\ ~waited[d]
     /\ submitAt[d] > doneAt[c]

\* C6: when more than capacity acquisitions are submitted at one instant to a
\* full bucket, exactly capacity of them complete without waiting and every
\* other one completes no earlier than 1000/capacity ms after its submission
BurstBeyondCapacity ==
  (SameInstantBurst /\ Cardinality(Submitted) > maxTokens) =>
     /\ Cardinality({c \in Submitted : ~waited[c]}) = maxTokens
     /\ \A c \in Submitted : ~waited[c] => apc[c] = "done" /\ doneAt[c] = submitAt[c]
     /\ \A c \in Completed :
           waited[c] => (doneAt[c] - submitAt[c]) * maxTokens >= MsPerSecond

\* C6 witness: capacity 5, 8 submissions at one instant, the 6th completed
\* exactly 200 ms after its submission
BurstWitness ==
  /\ maxTokens = 5
  /\ SameInstantBurst
  /\ Cardinality(Submitted) = 8
  /\ apc[6] = "done" /\ waited[6]
  /\ doneAt[6] - submitAt[6] = 200

\* C7 (as claimed): the number of acquisitions completed within elapsed time
\* t of a full bucket never exceeds capacity + t * refillRatePerMs
RateBound ==
  Cardinality(Completed) * MsPerSecond <= maxTokens * MsPerSecond + now * maxTokens

\* C8: acquire never fails, a suspended caller goes from its single wait
\* straight to completion, and every suspended caller eventually completes
AcquireCompletes ==
  /\ [](\A c \in Callers : apc[c] \in {"idle", "waiting", "done"})
  /\ [][\A c \in Callers : apc[c] = "waiting" => apc'[c] \in {"waiting", "done"}]_vars
  /\ \A c \in Callers : (apc[c] = "waiting") ~> (apc[c] = "done")

\* C8 witness: two callers found the bucket empty, were suspended, and have
\* both completed
AcquireCompletesWitness ==
  \E c, d \in Callers :
     /\ c # d
     /\ apc[c] = "done" /\ waited[c] /\ doneAt[c] >= wakeAt[c]
     /\ apc[d] = "done" /\ waited[d] /\ doneAt[d] >= wakeAt[d]

\* ------------------------------------------------------------------------
\* Credit accounting (lib/credits.ts)
\* ------------------------------------------------------------------------
\* strings that are searched for substrings are sequences of characters
CREDIT_COSTS == <<
  [pattern |-> <<"/", "b", "a", "c", "k", "l", "i", "n", "k", "s", "/", "s", "u", "m", "m", "a", "r", "y">>,
     perRequest |-> 0, perRecord |-> 100],
  [pattern |-> <<"/", "b", "a", "c", "k", "l", "i", "n", "k", "s", "/", "a", "l", "l">>,
     perRequest |-> 0, perRecord |-> 1],
  [pattern |-> <<"/", "b", "a", "c", "k", "l", "i", "n", "k", "s", "/", "a", "n", "c", "h", "o", "r", "s">>,
     perRequest |-> 0, perRecord |-> 1],
  [pattern |-> <<"/", "b", "a", "c", "k", "l", "i", "n", "k", "s", "/", "c", "o", "u", "n", "t">>,
     perRequest |-> 0, perRecord |-> 10],
  [pattern |-> <<"/", "b", "a", "c", "k", "l", "i", "n", "k", "s", "/", "a", "u", "t", "h", "o", "r", "i", "t", "y">>,
     perRequest |-> 0, perRecord |-> 100],
  [pattern |-> <<"/", "b", "a", "c", "k", "l", "i", "n", "k", "s", "/", "a", "u", "t", "h", "o", "r", "i", "t", "y", "/", "p", "a", "g", "e">>,
     perRequest |-> 0, perRecord |-> 10],
  [pattern |-> <<"/", "b", "a", "c", "k", "l", "i", "n", "k", "s", "/", "a", "u", "t", "h", "o", "r", "i", "t", "y", "/", "d", "o", "m", "a", "i", "n">>,
     perRequest |-> 0, perRecord |-> 10],
  [pattern |-> <<"/", "b", "a", "c", "k", "l", "i", "n", "k", "s", "/", "a", "u", "t", "h", "o", "r", "i", "t", "y", "/", "d", "o", "m", "a", "i", "n", "/", "d", "i", "s", "t", "r", "i", "b", "u", "t", "i", "o", "n">>,
     perRequest |-> 0, perRecord |-> 1],
  [pattern |-> <<"/", "b", "a", "c", "k", "l", "i", "n", "k", "s", "/", "r", "e", "f", "e", "r", "r", "i", "n", "g", "-", "i", "p", "s">>,
     perRequest |-> 0, perRecord |-> 1],
  [pattern |-> <<"/", "b", "a", "c", "k", "l", "i", "n", "k", "s", "/", "r", "e", "f", "e", "r", "r", "i", "n", "g", "-", "i", "p", "s", "/", "c", "o", "u", "n", "t">>,
     perRequest |-> 0, perRecord |-> 10],
  [pattern |-> <<"/", "b", "a", "c", "k", "l", "i", "n", "k", "s", "/", "m", "e", "t", "r", "i", "c", "s">>,
     perRequest |-> 0, perRecord |-> 100],
  [pattern |-> <<"/", "b", "a", "c", "k", "l", "i", "n", "k", "s", "/", "h", "i", "s", "t", "o", "r", "y">>,
     perRequest |-> 0, perRecord |-> 1],
  [pattern |-> <<"/", "b", "a", "c", "k", "l", "i", "n", "k", "s", "/", "h", "i", "s", "t", "o", "r", "y", "/", "c", "o", "u", "n", "t">>,
     perRequest |-> 0, perRecord |-> 100],
  [pattern |-> <<"/", "b", "a", "c", "k", "l", "i", "n", "k", "s", "/", "h", "i", "s", "t", "o", "r", "y", "/", "c", "u", "m", "u", "l", "a", "t", "i", "v", "e">>,
     perRequest |-> 0, perRecord |-> 100],
  [pattern |-> <<"/", "b", "a", "c", "k", "l", "i", "n", "k", "s", "/", "r", "e", "f", "d", "o", "m", "a", "i", "n", "s", "/", "h", "i", "s", "t", "o", "r", "y">>,
     perRequest |-> 0, perRecord |-> 1],
  [pattern |-> <<"/", "b", "a", "c", "k", "l", "i", "n", "k", "s", "/", "r", "e", "f", "d", "o", "m", "a", "i", "n", "s", "/", "h", "i", "s", "t", "o", "r", "y", "/", "c", "o", "u", "n", "t">>,
     perRequest |-> 0, perRecord |-> 100],
  [pattern |-> <<"/", "b", "a", "c", "k", "l", "i", "n", "k", "s", "/", "i", "n", "d", "e", "x", "e", "d", "-", "p", "a", "g", "e", "s">>,
     perRequest |-> 0, perRecord |-> 1],
  [pattern |-> <<"/", "b", "a", "c", "k", "l", "i", "n", "k", "s", "/", "r", "a", "w">>,
     perRequest |-> 0, perRecord |-> 1],
  [pattern |-> <<"/", "b", "a", "c", "k", "l", "i", "n", "k", "s", "/", "r", "e", "f", "d", "o", "m", "a", "i", "n", "s">>,
     perRequest |-> 0, perRecord |-> 1],
  [pattern |-> <<"/", "b", "a", "c", "k", "l", "i", "n", "k", "s", "/", "r", "e", "f", "d", "o", "m", "a", "i", "n", "s", "/", "c", "o", "u", "n", "t">>,
     perRequest |-> 0, perRecord |-> 10],
  [pattern |-> <<"/", "b", "a", "c", "k", "l", "i", "n", "k", "s", "/", "r", "e", "f", "e", "r", "r", "i", "n", "g", "-", "s", "u", "b", "n", "e", "t", "s", "/", "c", "o", "u", "n", "t">>,
     perRequest |-> 0, perRecord |-> 10],
  [pattern |-> <<"/", "b", "a", "c", "k", "l", "i", "n", "k", "s", "/", "i", "p", "s">>,
     perRequest |-> 0, perRecord |-> 1],
  [pattern |-> <<"/", "d", "o", "m", "a", "i", "n", "/", "o", "v", "e", "r", "v", "i", "e", "w", "/", "d", "b">>,
     perRequest |-> 100, perRecord |-> 0],
  [pattern |-> <<"/", "d", "o", "m", "a", "i", "n", "/", "o", "v", "e", "r", "v", "i", "e", "w", "/", "w", "o", "r", "l", "d", "w", "i", "d", "e">>,
     perRequest |-> 100, perRecord |-> 0],
  [pattern |-> <<"/", "d", "o", "m", "a", "i", "n", "/", "o", "v", "e", "r", "v", "i", "e", "w", "/", "w", "o", "r", "l", "d", "w", "i", "d", "e", "/", "u", "r", "l">>,
     perRequest |-> 100, perRecord |-> 0],
  [pattern |-> <<"/", "d", "o", "m", "a", "i", "n", "/", "o", "v", "e", "r", "v", "i", "e", "w", "/", "h", "i", "s", "t", "o", "r", "y">>,
     perRequest |-> 100, perRecord |-> 0],
  [pattern |-> <<"/", "d", "o", "m", "a", "i", "n", "/", "k", "e", "y", "w", "o", "r", "d", "s">>,
     perRequest |-> 100, perRecord |-> 0],
  [pattern |-> <<"/", "d", "o", "m", "a", "i", "n", "/", "p", "a", "g", "e", "s">>,
     perRequest |-> 100, perRecord |-> 0],
  [pattern |-> <<"/", "d", "o", "m", "a", "i", "n", "/", "s", "u", "b", "d", "o", "m", "a", "i", "n", "s">>,
     perRequest |-> 100, perRecord |-> 0],
  [pattern |-> <<"/", "d", "o", "m", "a", "i", "n", "/", "a", "d", "s">>,
     perRequest |-> 100, perRecord |-> 0],
  [pattern |-> <<"/", "d", "o", "m", "a", "i", "n", "/", "c", "o", "m", "p", "e", "t", "i", "t", "o", "r", "s">>,
     perRequest |-> 100, perRecord |-> 0],
  [pattern |-> <<"/", "d", "o", "m", "a", "i", "n", "/", "k", "e", "y", "w", "o", "r", "d", "s", "/", "c", "o", "m", "p", "a", "r", "i", "s", "o", "n">>,
     perRequest |-> 100, perRecord |-> 0],
  [pattern |-> <<"/", "a", "i", "-", "s", "e", "a", "r", "c", "h", "/", "o", "v", "e", "r", "v", "i", "e", "w">>,
     perRequest |-> 1800, perRecord |-> 0],
  [pattern |-> <<"/", "a", "i", "-", "s", "e", "a", "r", "c", "h", "/", "o", "v", "e", "r", "v", "i", "e", "w", "/", "l", "e", "a", "d", "e", "r", "b", "o", "a", "r", "d">>,
     perRequest |-> 7500, perRecord |-> 0],
  [pattern |-> <<"/", "a", "i", "-", "s", "e", "a", "r", "c", "h", "/", "d", "i", "s", "c", "o", "v", "e", "r", "-", "b", "r", "a", "n", "d">>,
     perRequest |-> 100, perRecord |-> 0],
  [pattern |-> <<"/", "a", "i", "-", "s", "e", "a", "r", "c", "h", "/", "p", "r", "o", "m", "p", "t", "s", "-", "b", "y", "-", "t", "a", "r", "g", "e", "t">>,
     perRequest |-> 0, perRecord |-> 200],
  [pattern |-> <<"/", "a", "i", "-", "s", "e", "a", "r", "c", "h", "/", "p", "r", "o", "m", "p", "t", "s", "-", "b", "y", "-", "b", "r", "a", "n", "d">>,
     perRequest |-> 0, perRecord |-> 200],
  [pattern |-> <<"/", "k", "e", "y", "w", "o", "r", "d", "s", "/", "e", "x", "p", "o", "r", "t">>,
     perRequest |-> 0, perRecord |-> 10],
  [pattern |-> <<"/", "k", "e", "y", "w", "o", "r", "d", "s", "/", "r", "e", "l", "a", "t", "e", "d">>,
     perRequest |-> 0, perRecord |-> 10],
  [pattern |-> <<"/", "k", "e", "y", "w", "o", "r", "d", "s", "/", "s", "i", "m", "i", "l", "a", "r">>,
     perRequest |-> 0, perRecord |-> 10],
  [pattern |-> <<"/", "k", "e", "y", "w", "o", "r", "d", "s", "/", "q", "u", "e", "s", "t", "i", "o", "n", "s">>,
     perRequest |-> 0, perRecord |-> 10],
  [pattern |-> <<"/", "k", "e", "y", "w", "o", "r", "d", "s", "/", "l", "o", "n", "g", "-", "t", "a", "i", "l">>,
     perRequest |-> 0, perRecord |-> 1],
  [pattern |-> <<"/", "a", "c", "c", "o", "u", "n", "t", "/", "s", "u", "b", "s", "c", "r", "i", "p", "t", "i", "o", "n">>,
     perRequest |-> 0, perRecord |-> 0]
>>

\* endpoint.includes(pattern)
Includes(endpoint, pattern) ==
  \E i \in 0..(Len(endpoint) - Len(pattern)) :
     SubSeq(endpoint, i + 1, i + Len(pattern)) = pattern

\* ------------------------------------------------------------------------
\* calculateCredits and countRecords called on their own
\* ------------------------------------------------------------------------
\* a client that is making no request, and no report run
IdleClient ==
  /\ now = 0
  /\ maxTokens = RateLimiterCapacity(0)
  /\ tokens = RateLimiterCapacity(0) * MsPerSecond
  /\ lastRefill = 0
  /\ apc = [c \in Callers |-> "idle"]
  /\ submitAt = [c \in Callers |-> 0]
  /\ wakeAt = [c \in Callers |-> 0]
  /\ doneAt = [c \in Callers |-> 0]
  /\ waited = [c \in Callers |-> FALSE]
  /\ enableLogging = TRUE
  /\ NoRequestYet
  /\ NoRunYet

\* endpoints the client passes to request() (and so to calculateCredits)
CreditEndpoints == <<
  <<"/", "b", "a", "c", "k", "l", "i", "n", "k", "s", "/", "s", "u", "m", "m", "a", "r", "y">>,
  <<"/", "d", "o", "m", "a", "i", "n", "/", "k", "e", "y", "w", "o", "r", "d", "s">>,
  <<"/", "d", "o", "m", "a", "i", "n", "/", "k", "e", "y", "w", "o", "r", "d", "s", "/", "c", "o", "m", "p", "a", "r", "i", "s", "o", "n">>,
  <<"/", "b", "a", "c", "k", "l", "i", "n", "k", "s", "/", "a", "u", "t", "h", "o", "r", "i", "t", "y", "/", "p", "a", "g", "e", "/", "h", "i", "s", "t", "o", "r", "y">>,
  <<"/", "b", "a", "c", "k", "l", "i", "n", "k", "s", "/", "e", "x", "p", "o", "r", "t">>,
  <<"/", "d", "o", "m", "a", "i", "n", "/", "o", "v", "e", "r", "v", "i", "e", "w", "/", "w", "o", "r", "l", "d", "w", "i", "d", "e", "/", "u", "r", "l">>,
  <<"/", "a", "c", "c", "o", "u", "n", "t", "/", "s", "u", "b", "s", "c", "r", "i", "p", "t", "i", "o", "n">>,
  <<"/", "b", "a", "c", "k", "l", "i", "n", "k", "s", "/", "r", "a", "w">>,
  <<"/", "b", "a", "c", "k", "l", "i", "n", "k", "s", "/", "h", "i", "s", "t", "o", "r", "y", "/", "r", "e", "f", "d", "o", "m", "a", "i", "n", "s", "/", "c", "o", "u", "n", "t">>,
  <<"/", "a", "i", "-", "s", "e", "a", "r", "c", "h", "/", "p", "r", "o", "m", "p", "t", "s", "-", "b", "y", "-", "b", "r", "a", "n", "d">>
>>

\* a variant that takes the first matching pattern of the table
calculateCredits_firstMatch(endpoint, recordCount) ==
  LET matches == {i \in DOMAIN CREDIT_COSTS : Includes(endpoint, CREDIT_COSTS[i].pattern)}
  IN IF matches = {} THEN 0
     ELSE LET match == CHOOSE i \in matches : \A j \in matches : i <= j
          IN CREDIT_COSTS[match].perRequest + CREDIT_COSTS[match].perRecord * recordCount

\* calculateCredits: the matching patterns sorted by length descending
\* (stable sort: the first of the longest in table order), first one wins
calculateCredits(endpoint, recordCount) ==
  LET matches == {i \in DOMAIN CREDIT_COSTS : Includes(endpoint, CREDIT_COSTS[i].pattern)}
  IN IF matches = {} THEN 0
     ELSE LET match == CHOOSE i \in matches :
                  \A j \in matches :
                     \/ Len(CREDIT_COSTS[j].pattern) < Len(CREDIT_COSTS[i].pattern)
                     \/ (Len(CREDIT_COSTS[j].pattern) = Len(CREDIT_COSTS[i].pattern) /\ i <= j)
          IN CREDIT_COSTS[match].perRequest + CREDIT_COSTS[match].perRecord * recordCount

\* a variant that counts every object as one record
countRecords_single(response) ==
  IF response.kind = "array" THEN response.len ELSE 1

\* the wrapper properties countRecords looks at, in order
WrapperKeys == <<"data", "pages", "keywords", "backlinks", "refdomains", "prompts",
                 "summary", "leaderboard", "history", "ips", "histogram">>

\* JSON values: [kind |-> "array" | "object" | "other", len |-> array length,
\* fields |-> property name -> [isArray, len]]
countRecords(response) ==
  IF response.kind = "array" THEN response.len
  ELSE IF response.kind = "object"
  THEN LET hits == {k \in DOMAIN WrapperKeys :
                      /\ WrapperKeys[k] \in DOMAIN response.fields
                      /\ response.fields[WrapperKeys[k]].isArray}
       IN IF hits = {} THEN 1
          ELSE LET first == CHOOSE k \in hits : \A j \in hits : k <= j
               IN response.fields[WrapperKeys[first]].len
  ELSE 1

\* a body that is neither a list nor an object (or no JSON body at all)
NoPayload == [kind |-> "other", len |-> 0, fields |-> << >>]

\* properties of the payloads given to countRecords: two wrapper properties
\* and one that countRecords does not know
PayloadKeys == {"data", "keywords", "items"}

\* what a property holds: a list of 0..MaxRecords elements, or something else
PayloadFieldValues ==
  {[isArray |-> TRUE, len |-> l] : l \in 0..MaxRecords} \cup {[isArray |-> FALSE, len |-> 0]}

\* the payloads given to countRecords: lists, objects, and a value that is neither
CountPayloads ==
  {[kind |-> "array", len |-> l, fields |-> << >>] : l \in 0..MaxRecords}
  \cup {[kind |-> "object", len |-> 0, fields |-> f] :
          f \in UNION {[K -> PayloadFieldValues] : K \in SUBSET PayloadKeys}}
  \cup {NoPayload}

InitCredits ==
  /\ IdleClient
  /\ callArgs \in
        {[fn |-> "calculateCredits", endpoint |-> CreditEndpoints[i], n |-> n] :
           i \in DOMAIN CreditEndpoints, n \in 0..MaxRecords}
        \cup {[fn |-> "countRecords", payload |-> p] : p \in CountPayloads}
  /\ callResult = [done |-> FALSE]
  /\ agg = NoAggregation

\* calculateCredits(endpoint, recordCount) returns
CallCalculateCredits ==
  /\ callArgs.fn = "calculateCredits"
  /\ ~callResult.done
  /\ callResult' = [done |-> TRUE, value |-> calculateCredits(callArgs.endpoint, callArgs.n)]
  /\ UNCHANGED <<callArgs, agg, limiterVars, gatewayVars, runVars>>

\* countRecords(response) returns
CallCountRecords ==
  /\ callArgs.fn = "countRecords"
  /\ ~callResult.done
  /\ callResult' = [done |-> TRUE, value |-> countRecords(callArgs.payload)]
  /\ UNCHANGED <<callArgs, agg, limiterVars, gatewayVars, runVars>>

NextCredits ==
  \/ CallCalculateCredits
  \/ CallCountRecords

CreditsSpec == InitCredits /\ [][NextCredits]_vars

\* C12: calculateCredits(endpoint, n) is perRequest + perRecord * n of the
\* longest pattern of the table that is a substring of the endpoint, and 0
\* when no pattern is; /domain/keywords costs 100 for any n and
\* /backlinks/summary costs 300 for n = 3.
CreditLookup ==
  (callArgs.fn = "calculateCredits" /\ callResult.done) =>
    LET e == callArgs.endpoint
        n == callArgs.n
        subs == {i \in DOMAIN CREDIT_COSTS : Includes(e, CREDIT_COSTS[i].pattern)}
        longest == {i \in subs : \A j \in subs :
                      Len(CREDIT_COSTS[j].pattern) <= Len(CREDIT_COSTS[i].pattern)}
    IN /\ subs = {} => callResult.value = 0
       /\ \A i \in longest :
            callResult.value = CREDIT_COSTS[i].perRequest + CREDIT_COSTS[i].perRecord * n
       /\ e = CreditEndpoints[2] => callResult.value = 100
       /\ (e = CreditEndpoints[1] /\ n = 3) => callResult.value = 300

\* C12 witness: /backlinks/authority/page/history contains two patterns and is
\* charged by the longer one, 10 per record
CreditLookupWitness ==
  /\ callArgs.fn = "calculateCredits"
  /\ callResult.done
  /\ callArgs.endpoint = CreditEndpoints[4]
  /\ callArgs.n = 3
  /\ callResult.value = 30

\* C13: countRecords is the length of a list payload; for an object carrying
\* a list under a known collection property, the length of that list (of the
\* first such property in the order countRecords tries them); 1 otherwise.
RecordCounting ==
  (callArgs.fn = "countRecords" /\ callResult.done) =>
    LET p == callArgs.payload
        known == {WrapperKeys[k] : k \in DOMAIN WrapperKeys}
        lists == {f \in DOMAIN p.fields : f \in known /\ p.fields[f].isArray}
    IN /\ p.kind = "array" => callResult.value = p.len
       /\ (p.kind = "object" /\ lists # {}) =>
            /\ \E f \in lists : callResult.value = p.fields[f].len
            /\ "data" \in lists => callResult.value = p.fields["data"].len
       /\ (p.kind = "object" /\ lists = {}) => callResult.value = 1
       /\ p.kind = "other" => callResult.value = 1

\* C13 witness: {"keywords": [a, b, c]} counts 3
RecordCountingWitness ==
  /\ callArgs.fn = "countRecords"
  /\ callResult.done
  /\ callArgs.payload.kind = "object"
  /\ DOMAIN callArgs.payload.fields = {"keywords"}
  /\ callArgs.payload.fields["keywords"] = [isArray |-> TRUE, len |-> 3]
  /\ callResult.value = 3

\* ------------------------------------------------------------------------
\* SeRankingClient.request
\* ------------------------------------------------------------------------
Requests == 1..NumRequests

\* the endpoint each call site requests: '/backlinks/summary',
\* '/domain/keywords/comparison', '/account/subscription', '/backlinks/raw'
CallSiteEndpoints == <<
  <<"/", "b", "a", "c", "k", "l", "i", "n", "k", "s", "/", "s", "u", "m", "m", "a", "r", "y">>,
  <<"/", "d", "o", "m", "a", "i", "n", "/", "k", "e", "y", "w", "o", "r", "d", "s", "/", "c", "o", "m", "p", "a", "r", "i", "s", "o", "n">>,
  <<"/", "a", "c", "c", "o", "u", "n", "t", "/", "s", "u", "b", "s", "c", "r", "i", "p", "t", "i", "o", "n">>,
  <<"/", "b", "a", "c", "k", "l", "i", "n", "k", "s", "/", "r", "a", "w">>
>>

EndpointOf(r) == CallSiteEndpoints[((r - 1) % Len(CallSiteEndpoints)) + 1]

\* JSON bodies of successful responses
Payloads == {
  [kind |-> "array", len |-> 2, fields |-> << >>],
  [kind |-> "object", len |-> 0, fields |-> ("summary" :> [isArray |-> TRUE, len |-> 1])],
  [kind |-> "object", len |-> 0, fields |-> << >>]
}

\* response.ok
ResponseOk(status) == 200 <= status /\ status <= 299

\* what fetch() delivers: a rejection (network failure), or a response with
\* its status and its body (JSON on success, text on an error status)
TransportOutcomes ==
  {[responded |-> FALSE, status |-> 0, text |-> "", json |-> NoPayload]}
  \cup {[responded |-> TRUE, status |-> 200, text |-> "", json |-> p] : p \in Payloads}
  \cup {[responded |-> TRUE, status |-> 204, text |-> "", json |-> NoPayload]}
  \cup {[responded |-> TRUE, status |-> st, text |-> "quota", json |-> NoPayload] :
          st \in {304, 402, 429, 500}}
  \cup {[responded |-> TRUE, status |-> 500, text |-> "down", json |-> NoPayload]}

Thrown(kind, status, text) == [kind |-> kind, status |-> status, text |-> text, data |-> NoPayload]

\* variant: no dedicated check for status 402
RequestResult_no402(o) ==
  IF ~o.responded THEN Thrown("TypeError", 0, "")
  ELSE IF ~ResponseOk(o.status)
  THEN IF o.status = 429 THEN Thrown("RateLimitError", 0, "")
       ELSE Thrown("Error", o.status, o.text)
  ELSE [kind |-> "data", status |-> 0, text |-> "", data |-> o.json]

\* request(), from the fetch to the throw or to the parsed payload
RequestResult(o) ==
  IF ~o.responded THEN Thrown("TypeError", 0, "")
  ELSE IF ~ResponseOk(o.status)
  THEN IF o.status = 429 THEN Thrown("RateLimitError", 0, "")
       ELSE IF o.status = 402 THEN Thrown("InsufficientFundsError", 0, "")
       ELSE Thrown("Error", o.status, o.text)
  ELSE [kind |-> "data", status |-> 0, text |-> "", data |-> o.json]

\* variant: a call answered with 429 is issued again
ReissueAfter_429(result) == result.kind = "RateLimitError"

\* neither request() nor any catch handler around it calls request() again
ReissueAfter(result) == FALSE

\* a variant that charges every call as one record
LogEntry_oneRecord(endpoint, data) ==
  [endpoint |-> endpoint, response |-> data, credits |-> calculateCredits(endpoint, 1)]

\* the entry request() pushes on apiLogs
LogEntry(endpoint, data) ==
  [endpoint |-> endpoint, response |-> data,
   credits |-> calculateCredits(endpoint, countRecords(data))]

InitGateway ==
  /\ NewRateLimiter
  /\ enableLogging \in BOOLEAN
  /\ NoRequestYet
  /\ NoRunYet
  /\ NoCallYet

\* request(endpoint, ...): await this.rateLimiter.acquire()
RequestCall(r) ==
  /\ rpc[r] = "idle"
  /\ Acquire(r)
  /\ rpc' = [rpc EXCEPT ![r] = "acquire"]
  /\ nAcquire' = [nAcquire EXCEPT ![r] = @ + 1]
  /\ UNCHANGED <<enableLogging, apiLogs, nFetch, lastCall>>
  /\ UNCHANGED <<runVars, callVars>>

\* the setTimeout of a suspended acquire() fires
RequestResume(r) ==
  /\ rpc[r] = "acquire"
  /\ Resume(r)
  /\ UNCHANGED <<gatewayVars, runVars, callVars>>

\* acquire() has resolved: await fetch(url, options)
RequestFetch(r) ==
  /\ rpc[r] = "acquire"
  /\ apc[r] = "done"
  /\ rpc' = [rpc EXCEPT ![r] = "fetch"]
  /\ nFetch' = [nFetch EXCEPT ![r] = @ + 1]
  /\ UNCHANGED <<enableLogging, apiLogs, nAcquire, lastCall>>
  /\ UNCHANGED <<limiterVars, runVars, callVars>>

\* fetch() settles: classification, call log, return or throw
FetchSettles(r) ==
  /\ rpc[r] = "fetch"
  /\ \E o \in TransportOutcomes :
       LET result == RequestResult(o)
       IN /\ lastCall' = [req |-> r, outcome |-> o, result |-> result]
          /\ apiLogs' = IF result.kind = "data" /\ enableLogging
                          THEN Append(apiLogs, LogEntry(EndpointOf(r), result.data))
                          ELSE apiLogs
          /\ IF result.kind # "data" /\ ReissueAfter(result)
               THEN /\ rpc' = [rpc EXCEPT ![r] = "idle"]
                    /\ apc' = [apc EXCEPT ![r] = "idle"]
               ELSE /\ rpc' = [rpc EXCEPT ![r] =
                                 IF result.kind = "data" THEN "returned" ELSE "thrown"]
                    /\ UNCHANGED apc
  /\ UNCHANGED <<enableLogging, nAcquire, nFetch>>
  /\ UNCHANGED <<now, maxTokens, tokens, lastRefill, submitAt, wakeAt, doneAt, waited>>
  /\ UNCHANGED <<runVars, callVars>>

GatewayAdvanceToTimer == AdvanceToTimer /\ UNCHANGED <<gatewayVars, runVars, callVars>>

\* a variant that counts the entries
getTotalCredits_entries(logs) == Len(logs)

\* getTotalCredits: this.apiLogs.reduce((sum, log) => sum + (log.credits || 0), 0)
getTotalCredits(logs) ==
  LET RECURSIVE reduce(_)
      reduce(rest) == IF rest = << >> THEN 0 ELSE Head(rest).credits + reduce(Tail(rest))
  IN reduce(logs)

\* generateReport, phase 4: every earlier call has settled and getSubscription
\* has not been called; getApiLogs() hands out the client's own array, and
\* getTotalCredits() is read
ReadTotals ==
  /\ callArgs = [fn |-> "none"]
  /\ \A r \in Requests :
       IF EndpointOf(r) = CallSiteEndpoints[3]
       THEN rpc[r] = "idle"
       ELSE rpc[r] \in {"returned", "thrown"}
  /\ callArgs' = [fn |-> "compileReport"]
  /\ callResult' = [done |-> FALSE, totalCredits |-> getTotalCredits(apiLogs)]
  /\ UNCHANGED <<agg, limiterVars, gatewayVars, runVars>>

\* getSubscription().catch(() => null) has settled: compileReport receives
\* the array, as it is now, and the total read before the call
CompileReport ==
  /\ callArgs = [fn |-> "compileReport"]
  /\ ~callResult.done
  /\ \A r \in Requests :
       EndpointOf(r) = CallSiteEndpoints[3] => rpc[r] \in {"returned", "thrown"}
  /\ callResult' = [done |-> TRUE,
                    value |-> [apiResponses |-> apiLogs,
                               totalCredits |-> callResult.totalCredits]]
  /\ UNCHANGED <<callArgs, agg, limiterVars, gatewayVars, runVars>>

NextGateway ==
  \/ \E r \in Requests : RequestCall(r)
  \/ \E r \in Requests : RequestResume(r)
  \/ \E r \in Requests : RequestFetch(r)
  \/ \E r \in Requests : FetchSettles(r)
  \/ GatewayAdvanceToTimer
  \/ ReadTotals
  \/ CompileReport

GatewaySpec == InitGateway /\ [][NextGateway]_vars

NoRetries ==
  \A r \in Requests :
     /\ nAcquire[r] <= 1 /\ nFetch[r] <= 1
     /\ rpc[r] # "idle" => nAcquire[r] = 1
     /\ rpc[r] \in {"fetch", "returned", "thrown"} => nFetch[r] = 1
     /\ rpc[r] \in {"idle", "acquire"} => nFetch[r] = 0

\* C10 witness: a call failed with a rate-limit error and another call was
\* made after it
NoRetriesWitness ==
  \E r, q \in Requests :
     /\ r # q
     /\ rpc[r] = "thrown" /\ lastCall.req = r /\ lastCall.result.kind = "RateLimitError"
     /\ rpc[q] = "fetch" /\ nFetch[q] = 1

CountryLists == {<< >>, <<"de">>, <<"de", "us">>}

\* a call that failed (HTTP error or transport failure inside the gateway)
Failure == [ok |-> FALSE, n |-> 0, malformed |-> FALSE, countries |-> << >>]

\* a call the provider answered: n rows; malformed = a competitor row without `domain`
Success(n, malformed, countries) ==
  [ok |-> TRUE, n |-> n, malformed |-> malformed, countries |-> countries]

CallOutcomes(c) ==
  CASE c = "getDomainOverviewWorldwide" ->
         {Failure} \cup {Success(0, FALSE, l) : l \in CountryLists}
    [] c = "getDomainCompetitors" ->
         {Failure} \cup {Success(n, FALSE, << >>) : n \in 0..MaxItems}
                   \cup {Success(n, TRUE, << >>) : n \in 1..MaxItems}
    [] c \in {"getTopPagesByTraffic", "getCompetitorTopPages", "getAISearchLeaderboard"} ->
         {Failure} \cup {Success(n, FALSE, << >>) : n \in 1..MaxItems}
    [] OTHER -> {Failure, Success(1, FALSE, << >>)}

\* a variant of the wrapper that lets the backlinks-summary failure through
Caught_rethrow(c, o) ==
  [rejects |-> c = "getBacklinksSummary" /\ ~o.ok, value |-> IF o.ok THEN o ELSE Failure]

\* `.catch(() => default)` (or the normalizer's own try/catch): a failed call
\* settles with the metric's default, which has no rows
Caught(c, o) ==
  [rejects |-> FALSE, value |-> IF o.ok THEN o ELSE Failure]

\* the local variable of generateReport that receives the settled value
Record(c, v, r) ==
  CASE c = "getDomainOverviewWorldwide" -> [r EXCEPT !.countries = v.countries]
    [] c = "getBacklinksSummary" -> [r EXCEPT !.summary = IF v.ok THEN "provider" ELSE "null"]
    [] c = "getDomainKeywords" -> [r EXCEPT !.keywords = IF v.ok THEN "provider" ELSE "empty"]
    [] c = "getDomainCompetitors" ->
         [r EXCEPT !.nCompetitors = v.n, !.malformedCompetitor = v.malformed]
    [] c = "getTopPagesByTraffic" -> [r EXCEPT !.nPages = v.n]
    [] c = "getCompetitorTopPages" -> [r EXCEPT !.nCompetitorPages = v.n]
    [] c = "discoverBrand" -> [r EXCEPT !.brand = IF v.ok THEN "provider" ELSE "fallback"]
    [] c = "getAISearchLeaderboard" -> [r EXCEPT !.nEngines = Min(v.n, 5)]
    [] c = "getDomainPaidKeywords" -> [r EXCEPT !.nPaidKeywords = v.n]

\* worldwideData.topCountry
topMarket(r) == IF Len(r.countries) > 0 THEN r.countries[1] ELSE "us"

\* worldwideData.countries.slice(0, 5)
topMarkets(r) == SubSeq(r.countries, 1, Min(5, Len(r.countries)))

\* competitorsResult.data?.[0] is defined
topCompetitorForAnalysis(r) == r.nCompetitors > 0

\* the calls of phase p whose results later code depends on
TrackedIn(p, r) ==
  CASE p = 7 -> IF topCompetitorForAnalysis(r) /\ r.nPages > 0
                THEN {"getCompetitorTopPages"} ELSE {}
    [] OTHER -> {c \in TrackedCalls : PhaseOf[c] = p}

\* the number of other calls of phase p
OthersIn(p, r) ==
  CASE p = 2 -> 10 + Len(topMarkets(r))
    [] p = 3 -> (IF Len(topMarkets(r)) > 1 THEN 1 ELSE 0)
                + (IF topCompetitorForAnalysis(r) THEN 2 ELSE 0)
    [] p = 4 -> IF Min(5, r.nCompetitors) > 0 THEN 1 ELSE 0
    [] p = 5 -> IF Min(5, r.nCompetitors) >= 2 THEN 1 ELSE 0
    [] p = 6 -> Min(5, r.nPages)
    [] p = 8 -> IF topCompetitorForAnalysis(r) /\ r.nPages > 0
                THEN Min(Min(2, r.nPages), Min(2, r.nCompetitorPages)) ELSE 0
    [] p = 11 -> 2 + (IF topCompetitorForAnalysis(r) THEN 1 ELSE 0) + 2 * r.nEngines
    [] p = 12 -> 6
    [] p = 14 -> IF r.nPaidKeywords > 0 THEN 1 ELSE 0
    [] p = 15 -> 1
    [] p = 16 -> 2
    [] p = 17 -> 1
    [] OTHER -> 0

\* the number of calls of phase p that have not settled
Outstanding(p) == others[p] + Cardinality({c \in pending : PhaseOf[c] = p})

\* a variant that awaits the named results only, not the spread promises
AllSettled_named(p) == \A c \in pending : PhaseOf[c] # p

\* `await Promise.all([...])` / `await call`: every call of the phase has settled
AllSettled(p) == Outstanding(p) = 0

\* competitorsList: `c.domain.split('.')` raises for a row without `domain`
CompetitorsListThrows(r) == r.nCompetitors > 0 /\ r.malformedCompetitor

\* compileReport: the sections the properties read
compileReport(r) ==
  [summary |-> IF r.summary = "null" THEN "createEmptyBacklinksSummary" ELSE "provider",
   topKeywords |-> r.keywords,
   market |-> topMarket(r)]

\* the calls of phase p are issued
StartPhase(p) ==
  /\ phase' = p
  /\ pending' = pending \cup TrackedIn(p, results)
  /\ others' = [others EXCEPT ![p] = OthersIn(p, results)]
  /\ issued' = [issued EXCEPT ![p] = Cardinality(TrackedIn(p, results)) + OthersIn(p, results)]

\* one of the calls that later code depends on settles
ResolveTracked(c) ==
  /\ c \in pending
  /\ pending' = pending \ {c}
  /\ \E o \in CallOutcomes(c) :
       LET s == Caught(c, o) IN
       /\ failedCalls' = IF o.ok THEN failedCalls ELSE failedCalls \cup {c}
       /\ IF s.rejects
          THEN /\ gstate' = IF gstate = "running" THEN "rejected" ELSE gstate
               /\ rejectCause' = IF gstate = "running" THEN "fetch" ELSE rejectCause
               /\ UNCHANGED results
          ELSE /\ results' = Record(c, s.value, results)
               /\ UNCHANGED <<gstate, rejectCause>>
  /\ UNCHANGED <<phase, others, issued, otherFailed, report>>
  /\ UNCHANGED <<apiKey, sharedKey, client, httpResponse, jpc, stored>>
  /\ UNCHANGED <<limiterVars, gatewayVars, callVars>>

\* one of the other calls of phase p settles
ResolveOther(p) ==
  /\ others[p] > 0
  /\ others' = [others EXCEPT ![p] = @ - 1]
  /\ \E o \in {Failure, Success(1, FALSE, << >>)} :
       LET s == Caught("other", o) IN
       /\ otherFailed' = (otherFailed \/ ~o.ok)
       /\ IF s.rejects
          THEN /\ gstate' = IF gstate = "running" THEN "rejected" ELSE gstate
               /\ rejectCause' = IF gstate = "running" THEN "fetch" ELSE rejectCause
          ELSE UNCHANGED <<gstate, rejectCause>>
  /\ UNCHANGED <<phase, pending, issued, results, failedCalls, report>>
  /\ UNCHANGED <<apiKey, sharedKey, client, httpResponse, jpc, stored>>
  /\ UNCHANGED <<limiterVars, gatewayVars, callVars>>

\* generateReport continues after an await up to the next one
Advance ==
  /\ gstate = "running"
  /\ phase \in 1..(NumPhases - 1)
  /\ AllSettled(phase)
  /\ IF phase = 9 /\ CompetitorsListThrows(results)
     THEN /\ gstate' = "rejected"
          /\ rejectCause' = "TypeError"
          /\ UNCHANGED <<phase, pending, others, issued>>
     ELSE /\ StartPhase(phase + 1)
          /\ UNCHANGED <<gstate, rejectCause>>
  /\ UNCHANGED <<results, failedCalls, otherFailed, report>>
  /\ UNCHANGED <<apiKey, sharedKey, client, httpResponse, jpc, stored>>
  /\ UNCHANGED <<limiterVars, gatewayVars, callVars>>

\* generateReport compiles the report and returns it
Return ==
  /\ gstate = "running"
  /\ phase = NumPhases
  /\ AllSettled(phase)
  /\ gstate' = "returned"
  /\ report' = compileReport(results)
  /\ UNCHANGED <<phase, pending, others, issued, results, failedCalls, otherFailed, rejectCause>>
  /\ UNCHANGED <<apiKey, sharedKey, client, httpResponse, jpc, stored>>
  /\ UNCHANGED <<limiterVars, gatewayVars, callVars>>

\* ------------------------------------------------------------------------
\* POST /api/reports and the background job
\* ------------------------------------------------------------------------
ApiKeys == {"", "user-key"}

SharedKeys == {"", "shared-key"}

\* a variant without the key check
ApiKeyAccepted_any(key) == TRUE

\* `if (!apiKey) return 400`
ApiKeyAccepted(key) == key # ""

isApiKeyMode == TRUE

\* null when no key resolves, a client otherwise
createSeRankingClient(key, isUserKey, envKey) ==
  LET resolved == IF key # "" THEN key ELSE IF isUserKey THEN "" ELSE envKey
  IN  IF resolved = "" THEN "null" ELSE "client"

\* the report POST stores first
InitialReport == [status |-> "pending", progressStatus |-> "pending", progress |-> 0,
                  data |-> "none"]

\* a variant that leaves the progress of the last update
CompletedReport_keepProgress(r, data) ==
  [status |-> "completed", progressStatus |-> "completed", progress |-> r.progress,
   data |-> data]

\* completedReport of the job
CompletedReport(r, data) ==
  [status |-> "completed", progressStatus |-> "completed", progress |-> 100,
   data |-> data]

\* updateReportProgress: the patch is merged into the stored progress, and a
\* status in the patch becomes the status of the report
updateReportProgress(r, patch) ==
  [status |-> IF "status" \in DOMAIN patch THEN patch.status ELSE r.status,
   progressStatus |-> IF "status" \in DOMAIN patch THEN patch.status ELSE r.progressStatus,
   progress |-> IF "progress" \in DOMAIN patch THEN patch.progress ELSE r.progress,
   data |-> r.data]

\* the last progress update of the mock branch
MockProgress == [progress |-> 95]

InitRun ==
  /\ now = 0
  /\ maxTokens = RateLimiterCapacity(0)
  /\ tokens = RateLimiterCapacity(0) * MsPerSecond
  /\ lastRefill = 0
  /\ apc = [c \in Callers |-> "idle"]
  /\ submitAt = [c \in Callers |-> 0]
  /\ wakeAt = [c \in Callers |-> 0]
  /\ doneAt = [c \in Callers |-> 0]
  /\ waited = [c \in Callers |-> FALSE]
  /\ enableLogging = TRUE
  /\ NoRequestYet
  /\ apiKey = ""
  /\ sharedKey \in SharedKeys
  /\ client = "none"
  /\ httpResponse = "none"
  /\ jpc = "init"
  /\ stored = [status |-> "none", progressStatus |-> "none", progress |-> 0, data |-> "none"]
  /\ gstate = "idle"
  /\ phase = 0
  /\ pending = {}
  /\ others = [p \in Phases |-> 0]
  /\ issued = [p \in Phases |-> 0]
  /\ results = NoResults
  /\ failedCalls = {}
  /\ otherFailed = FALSE
  /\ rejectCause = "none"
  /\ report = NoReport
  /\ NoCallYet

\* POST: validation, the pending report is stored, the job is scheduled
Post ==
  /\ jpc = "init"
  /\ \E key \in ApiKeys, domainValid \in BOOLEAN :
       /\ apiKey' = key
       /\ IF ~domainValid \/ ~ApiKeyAccepted(key)
          THEN /\ httpResponse' = "error400"
               /\ jpc' = "refused"
               /\ UNCHANGED <<stored, client>>
          ELSE /\ stored' = InitialReport
               /\ client' = createSeRankingClient(key, isApiKeyMode, sharedKey)
               /\ httpResponse' = "accepted"
               /\ jpc' = "scheduled"
  /\ UNCHANGED <<sharedKey, gstate, phase, pending, others, issued, results, failedCalls,
                 otherFailed, rejectCause, report>>
  /\ UNCHANGED <<limiterVars, gatewayVars, callVars>>

\* the job starts: status processing, then generateReport is called (or the
\* mock branch runs when there is no client)
JobStart ==
  /\ jpc = "scheduled"
  /\ IF client = "client"
     THEN /\ stored' = updateReportProgress(stored, [status |-> "processing"])
          /\ jpc' = "running"
          /\ gstate' = "running"
          /\ StartPhase(1)
          /\ UNCHANGED report
     ELSE /\ stored' = updateReportProgress(
                         updateReportProgress(stored, [status |-> "processing"]),
                         MockProgress)
          /\ jpc' = "generated"
          /\ report' = [NoReport EXCEPT !.summary = "mock"]
          /\ UNCHANGED <<gstate, phase, pending, others, issued>>
  /\ UNCHANGED <<apiKey, sharedKey, client, httpResponse, results, failedCalls, otherFailed,
                 rejectCause>>
  /\ UNCHANGED <<limiterVars, gatewayVars, callVars>>

\* the job stores the completed report
JobComplete ==
  /\ \/ jpc = "running" /\ gstate = "returned"
     \/ jpc = "generated"
  /\ stored' = CompletedReport(stored, IF jpc = "generated" THEN "mock" ELSE "report")
  /\ jpc' = "finished"
  /\ UNCHANGED <<apiKey, sharedKey, client, httpResponse, gstate, phase, pending, others,
                 issued, results, failedCalls, otherFailed, rejectCause, report>>
  /\ UNCHANGED <<limiterVars, gatewayVars, callVars>>

\* the job's catch: generateReport rejected
JobCatch ==
  /\ jpc = "running"
  /\ gstate = "rejected"
  /\ stored' = updateReportProgress(stored, [status |-> "failed"])
  /\ jpc' = "finished"
  /\ UNCHANGED <<apiKey, sharedKey, client, httpResponse, gstate, phase, pending, others,
                 issued, results, failedCalls, otherFailed, rejectCause, report>>
  /\ UNCHANGED <<limiterVars, gatewayVars, callVars>>

NextRun ==
  \/ Post
  \/ JobStart
  \/ \E c \in TrackedCalls : ResolveTracked(c)
  \/ \E p \in Phases : ResolveOther(p)
  \/ Advance
  \/ Return
  \/ JobComplete
  \/ JobCatch

RunSpec == InitRun /\ [][NextRun]_vars

\* ------------------------------------------------------------------------
\* Properties of a run
\* ------------------------------------------------------------------------
\* C1: whatever calls fail, generateReport does not reject because of them (it
\* rejects only on a competitor row without `domain`, never on a failure); when
\* the backlinks-summary fetch is the only call that failed, the returned report
\* has the zero-filled summary and the keywords of the keyword fetch, and the
\* stored run is not failed.
PartialDegradation ==
  /\ rejectCause # "fetch"
  /\ gstate = "rejected" => CompetitorsListThrows(results)
  /\ stored.status = "failed" => CompetitorsListThrows(results)
  /\ (gstate = "returned" /\ failedCalls = {"getBacklinksSummary"} /\ ~otherFailed) =>
       /\ report.summary = "createEmptyBacklinksSummary"
       /\ report.topKeywords = "provider"
       /\ stored.status # "failed"

PartialDegradationWitness ==
  /\ stored.status = "completed"
  /\ stored.data = "report"
  /\ failedCalls = {"getBacklinksSummary"}
  /\ ~otherFailed
  /\ report.summary = "createEmptyBacklinksSummary"
  /\ report.topKeywords = "provider"

\* C2: once a call of a phase has been issued, no call of an earlier phase is
\* outstanding; the worldwide overview (top market), the competitors (top
\* competitor), discoverBrand (brand name) and the leaderboard (engines with
\* presence) have settled before the calls that use them are issued.
PhaseOrdering ==
  /\ \A p \in Phases, q \in Phases : (p < q /\ issued[q] > 0) => Outstanding(p) = 0
  /\ issued[2] > 0 => "getDomainOverviewWorldwide" \notin pending
  /\ issued[3] > 0 => "getDomainCompetitors" \notin pending
  /\ issued[10] > 0 => "discoverBrand" \notin pending
  /\ issued[11] > 0 => "getAISearchLeaderboard" \notin pending

PhaseOrderingWitness ==
  /\ phase = 11
  /\ Outstanding(11) > 0
  /\ Outstanding(11) < issued[11]
  /\ issued[2] = 13 + Len(topMarkets(results))
  /\ topMarket(results) = "de"
  /\ topCompetitorForAnalysis(results)
  /\ results.brand = "provider"
  /\ results.nEngines = MaxItems

SeqsUpTo(S, n) == UNION {[1..k -> S] : k \in 0..n}

RECURSIVE SumOf(_)
SumOf(numbers) == IF numbers = << >> THEN 0 ELSE Head(numbers) + SumOf(Tail(numbers))

\* Math.round(total / n) for total >= 0 and n > 0
Round(total, n) == (2 * total + n) \div (2 * n)

\* Math.min(...numbers)
SeqMin(numbers) ==
  CHOOSE x \in {numbers[i] : i \in DOMAIN numbers} : \A i \in DOMAIN numbers : x <= numbers[i]

\* the competitors an aggregator is called with
CompetitorLists == {<<"a.com", "b.com">>}

\* the limit an aggregator is called with (default 50)
Limits == {1, 50}

\* a variant that keeps the results in the order the fetches completed
PromiseAll_completionOrder(competitors, settled, order) ==
  [k \in DOMAIN order |->
     [competitor |-> competitors[order[k]], rows |-> settled[order[k]].rows]]

\* await Promise.all(competitors.map(...)): one result per competitor, in the
\* order of the competitors
PromiseAll(competitors, settled, order) ==
  [i \in DOMAIN competitors |-> [competitor |-> competitors[i], rows |-> settled[i].rows]]

\* `for (const {competitor, rows} of results) for (const row of rows)`: the
\* rows in the order the two loops visit them
RECURSIVE Flatten(_)
Flatten(perCompetitor) ==
  IF perCompetitor = << >> THEN << >>
  ELSE [k \in 1..Len(Head(perCompetitor).rows) |->
          [competitor |-> Head(perCompetitor).competitor, row |-> Head(perCompetitor).rows[k]]]
       \o Flatten(Tail(perCompetitor))

\* a variant that keeps the map of the previous call
FreshMap_kept(previous) == previous

\* new Map() at each call
FreshMap(previous) == << >>

\* a variant that leaves the entries in insertion order
SortByCount_unsorted(entries, secondary) == entries

\* .sort(): competitorCount descending, then the secondary key descending
\* (secondary[i] is the key of entries[i]); the sort is stable
SortByCount(entries, secondary) ==
  LET Before(i, j) ==
        \/ entries[i].competitorCount > entries[j].competitorCount
        \/ /\ entries[i].competitorCount = entries[j].competitorCount
           /\ secondary[i] > secondary[j]
        \/ /\ entries[i].competitorCount = entries[j].competitorCount
           /\ secondary[i] = secondary[j]
           /\ i < j
      rank(i) == 1 + Cardinality({j \in DOMAIN entries : Before(j, i)})
  IN [k \in DOMAIN entries |-> entries[CHOOSE i \in DOMAIN entries : rank(i) = k]]

\* .slice(0, limit)
Slice(entries, limit) == SubSeq(entries, 1, Min(limit, Len(entries)))

VolumeOf(entries) == [i \in DOMAIN entries |-> entries[i].volume]

DomainInlinkRankOf(entries) == [i \in DOMAIN entries |-> entries[i].domainInlinkRank]

PositionsOf(competitors) == [i \in DOMAIN competitors |-> competitors[i].position]

\* --- getMultiCompetitorKeywordGaps ---
\* rows of getDomainKeywordsComparison(competitor, ourDomain, diff = 1)
GapRows == {
  [keyword |-> "shoes", volume |-> 1000, difficulty |-> 30, competitor_position |-> 5],
  [keyword |-> "shoes", volume |-> 1200, difficulty |-> 35, competitor_position |-> 2],
  [keyword |-> "boots", volume |-> 1000, difficulty |-> 40, competitor_position |-> 4]
}

\* a variant that keeps the volume and difficulty of the first contribution
GapFoldStep_first(map, c) ==
  LET hits == {i \in DOMAIN map : map[i].keyword = c.row.keyword}
      element == [domain |-> c.competitor, position |-> c.row.competitor_position]
  IN IF hits # {}
     THEN LET i == CHOOSE i \in hits : TRUE
          IN [map EXCEPT ![i] = [@ EXCEPT !.competitors = Append(@, element)]]
     ELSE Append(map, [keyword |-> c.row.keyword, volume |-> c.row.volume,
                       difficulty |-> c.row.difficulty, competitors |-> <<element>>])

\* the body of the loops: keywordMap.get / push / Math.max, or keywordMap.set
GapFoldStep(map, c) ==
  LET hits == {i \in DOMAIN map : map[i].keyword = c.row.keyword}
      element == [domain |-> c.competitor, position |-> c.row.competitor_position]
  IN IF hits # {}
     THEN LET i == CHOOSE i \in hits : TRUE
          IN [map EXCEPT ![i] = [@ EXCEPT !.competitors = Append(@, element),
                                          !.volume = Max(@, c.row.volume),
                                          !.difficulty = Max(@, c.row.difficulty)]]
     ELSE Append(map, [keyword |-> c.row.keyword, volume |-> c.row.volume,
                       difficulty |-> c.row.difficulty, competitors |-> <<element>>])

RECURSIVE GapFold(_, _)
GapFold(map, contributions) ==
  IF contributions = << >> THEN map
  ELSE GapFold(GapFoldStep(map, Head(contributions)), Tail(contributions))

\* Array.from(keywordMap.values()).map(...)
GapAggregated(map) ==
  [i \in DOMAIN map |->
     [keyword |-> map[i].keyword, volume |-> map[i].volume, difficulty |-> map[i].difficulty,
      competitorCount |-> Len(map[i].competitors),
      competitors |-> map[i].competitors,
      avgPosition |-> Round(SumOf(PositionsOf(map[i].competitors)), Len(map[i].competitors)),
      bestPosition |-> SeqMin(PositionsOf(map[i].competitors))]]

\* --- getMultiCompetitorKeywordOverlaps ---
\* rows of getKeywordOverlap(ourDomain, competitor): each comparison reports
\* our position as the provider has it when that comparison is answered
OverlapRows == {
  [keyword |-> "shoes", volume |-> 1000, ourPosition |-> 3, competitorPosition |-> 2],
  [keyword |-> "shoes", volume |-> 1200, ourPosition |-> 10, competitorPosition |-> 5],
  [keyword |-> "shoes", volume |-> 1000, ourPosition |-> 3, competitorPosition |-> 5],
  [keyword |-> "boots", volume |-> 1000, ourPosition |-> 8, competitorPosition |-> 1]
}

\* `if (overlap.competitorPosition < overlap.ourPosition)`
OverlapAdmitted(row) == row.competitorPosition < row.ourPosition

\* the body of the loops
OverlapFoldStep(map, c) ==
  LET hits == {i \in DOMAIN map : map[i].keyword = c.row.keyword}
      element == [domain |-> c.competitor, position |-> c.row.competitorPosition]
  IN IF ~OverlapAdmitted(c.row) THEN map
     ELSE IF hits # {}
     THEN LET i == CHOOSE i \in hits : TRUE
          IN [map EXCEPT ![i] = [@ EXCEPT !.competitors = Append(@, element),
                                          !.volume = Max(@, c.row.volume)]]
     ELSE Append(map, [keyword |-> c.row.keyword, volume |-> c.row.volume,
                       ourPosition |-> c.row.ourPosition, competitors |-> <<element>>])

RECURSIVE OverlapFold(_, _)
OverlapFold(map, contributions) ==
  IF contributions = << >> THEN map
  ELSE OverlapFold(OverlapFoldStep(map, Head(contributions)), Tail(contributions))

\* Array.from(keywordMap.values()).map(...)
OverlapAggregated(map) ==
  [i \in DOMAIN map |->
     LET avgCompetitorPosition ==
           Round(SumOf(PositionsOf(map[i].competitors)), Len(map[i].competitors))
     IN [keyword |-> map[i].keyword, volume |-> map[i].volume,
         ourPosition |-> map[i].ourPosition,
         competitorCount |-> Len(map[i].competitors),
         competitors |-> map[i].competitors,
         avgCompetitorPosition |-> avgCompetitorPosition,
         positionGap |-> map[i].ourPosition - avgCompetitorPosition]]

\* --- getMultiCompetitorBacklinkGaps ---
\* rows of getBacklinksRefDomains
RefDomainRows == {
  [domain |-> "blog.org", domain_inlink_rank |-> 50, backlinks |-> 3],
  [domain |-> "blog.org", domain_inlink_rank |-> 60, backlinks |-> 1],
  [domain |-> "news.net", domain_inlink_rank |-> 50, backlinks |-> 2]
}

\* new Set(ourRefDomains.data.map(r => r.domain))
ourDomainSet(ourRows) == {ourRows[i].domain : i \in DOMAIN ourRows}

\* a variant that skips nothing
SkipsOurDomain_never(row, ourSet) == FALSE

\* `if (ourDomainSet.has(ref.domain)) continue`
SkipsOurDomain(row, ourSet) == row.domain \in ourSet

\* the body of the loops
BacklinkFoldStep(map, c, ourSet) ==
  LET hits == {i \in DOMAIN map : map[i].domain = c.row.domain}
      element == [domain |-> c.competitor, backlinks |-> c.row.backlinks]
  IN IF SkipsOurDomain(c.row, ourSet) THEN map
     ELSE IF hits # {}
     THEN LET i == CHOOSE i \in hits : TRUE
          IN [map EXCEPT ![i] =
                [@ EXCEPT !.competitors = Append(@, element),
                          !.totalBacklinks = @ + c.row.backlinks,
                          !.domainInlinkRank = Max(@, c.row.domain_inlink_rank)]]
     ELSE Append(map, [domain |-> c.row.domain, domainInlinkRank |-> c.row.domain_inlink_rank,
                       competitors |-> <<element>>, totalBacklinks |-> c.row.backlinks])

RECURSIVE BacklinkFold(_, _, _)
BacklinkFold(map, contributions, ourSet) ==
  IF contributions = << >> THEN map
  ELSE BacklinkFold(BacklinkFoldStep(map, Head(contributions), ourSet),
                    Tail(contributions), ourSet)

\* Array.from(domainMap.values()).map(...)
BacklinkAggregated(map) ==
  [i \in DOMAIN map |->
     [domain |-> map[i].domain, domainInlinkRank |-> map[i].domainInlinkRank,
      competitorCount |-> Len(map[i].competitors),
      totalBacklinksToCompetitors |-> map[i].totalBacklinks,
      competitors |-> map[i].competitors]]

\* getBacklinkGap: the competitor's referring domains that are not ours
BacklinkGap(competitorRows, ourRows, limit) ==
  LET kept == SelectSeq(competitorRows, LAMBDA r : ~SkipsOurDomain(r, ourDomainSet(ourRows)))
      sliced == Slice(kept, limit)
  IN [i \in DOMAIN sliced |->
        [domain |-> sliced[i].domain, domain_inlink_rank |-> sliced[i].domain_inlink_rank,
         backlinks_to_competitor |-> sliced[i].backlinks]]

\* --- the aggregators as calls: the function, its arguments, and what the
\* provider answers for each competitor (data) and for our own domain (ours) ---
\* what the provider answers to one fetch: rows, or an error, which the
\* fetching function catches and turns into an empty result
Rejected == [ok |-> FALSE, rows |-> << >>]

ProviderAnswers(rows, n) == {[ok |-> TRUE, rows |-> r] : r \in SeqsUpTo(rows, n)} \cup {Rejected}

\* the four functions these calls name
AggregatorFns ==
  {"getMultiCompetitorKeywordGaps", "getMultiCompetitorKeywordOverlaps",
   "getMultiCompetitorBacklinkGaps", "getBacklinkGap"}

\* the functions that fetch our own referring domains
FetchesOurs(fn) == fn \in {"getMultiCompetitorBacklinkGaps", "getBacklinkGap"}

\* the rows the provider may answer with to a competitor fetch of each function
RowsOf(fn) ==
  CASE fn = "getMultiCompetitorKeywordGaps" -> GapRows
    [] fn = "getMultiCompetitorKeywordOverlaps" -> OverlapRows
    [] OTHER -> RefDomainRows

\* the competitor arguments: a list for the multi-competitor functions, one
\* domain for getBacklinkGap
CompetitorsOf(fn) == IF fn = "getBacklinkGap" THEN {<<"a.com">>} ELSE CompetitorLists

\* the provider's answers to the fetch of our own referring domains
OursOf(fn) == IF FetchesOurs(fn) THEN ProviderAnswers(RefDomainRows, 1) ELSE {Rejected}

\* everything the function computes once its fetches have settled
Aggregation(args, settled, order, ours, previous) ==
  LET contributions == Flatten(PromiseAll(args.competitors, settled, order))
  IN CASE args.fn = "getMultiCompetitorKeywordGaps" ->
            LET map == GapFold(FreshMap(previous), contributions)
                aggregated == GapAggregated(map)
            IN [map |-> map, aggregated |-> aggregated,
                value |-> Slice(SortByCount(aggregated, VolumeOf(aggregated)), args.limit)]
       [] args.fn = "getMultiCompetitorKeywordOverlaps" ->
            LET map == OverlapFold(FreshMap(previous), contributions)
                aggregated == OverlapAggregated(map)
            IN [map |-> map, aggregated |-> aggregated,
                value |-> Slice(SortByCount(aggregated, VolumeOf(aggregated)), args.limit)]
       [] args.fn = "getMultiCompetitorBacklinkGaps" ->
            LET map == BacklinkFold(FreshMap(previous), contributions, ourDomainSet(ours.rows))
                aggregated == BacklinkAggregated(map)
            IN [map |-> map, aggregated |-> aggregated,
                value |-> Slice(SortByCount(aggregated, DomainInlinkRankOf(aggregated)), args.limit)]
       [] args.fn = "getBacklinkGap" ->
            [map |-> << >>, aggregated |-> << >>,
             value |-> BacklinkGap(settled[1].rows, ours.rows, args.limit)]

\* getMultiCompetitorAnalysis(ourDomain, competitors, source): the three
\* aggregators are awaited one after the other with limit 50, and the summary
\* counts and sums what they returned; args carries the provider's answers to
\* the fetches of each aggregator
getMultiCompetitorAnalysis_allEntries(args) ==
  LET Settled(d) == [i \in DOMAIN d |->
                       [done |-> TRUE, rows |-> IF d[i].ok THEN d[i].rows ELSE << >>]]
      inOrder == [i \in DOMAIN args.competitors |-> i]
      ourRows == [done |-> TRUE, rows |-> IF args.ours.ok THEN args.ours.rows ELSE << >>]
      Call(fn, d) ==
        Aggregation([fn |-> fn, competitors |-> args.competitors, limit |-> 50],
                    Settled(d), inOrder, ourRows, << >>).value
      keywordGaps == Call("getMultiCompetitorKeywordGaps", args.gaps)
      keywordOverlaps == Call("getMultiCompetitorKeywordOverlaps", args.overlaps)
      backlinkGaps == Call("getMultiCompetitorBacklinkGaps", args.refdomains)
      Multiple(list) == SelectSeq(list, LAMBDA g : g.competitorCount >= 2)
      opportunities == keywordGaps
  IN  [competitorsAnalyzed |-> args.competitors,
       keywordGaps |-> keywordGaps,
       keywordOverlaps |-> keywordOverlaps,
       backlinkGaps |-> backlinkGaps,
       summary |->
         [totalKeywordGaps |-> Len(keywordGaps),
          keywordGapsMultipleCompetitors |-> Len(Multiple(keywordGaps)),
          totalBacklinkGaps |-> Len(backlinkGaps),
          backlinkGapsMultipleCompetitors |-> Len(Multiple(backlinkGaps)),
          potentialTrafficOpportunity |->
            SumOf([i \in DOMAIN opportunities |-> Round(opportunities[i].volume, 10)])]]

getMultiCompetitorAnalysis(args) ==
  LET Settled(d) == [i \in DOMAIN d |->
                       [done |-> TRUE, rows |-> IF d[i].ok THEN d[i].rows ELSE << >>]]
      inOrder == [i \in DOMAIN args.competitors |-> i]
      ourRows == [done |-> TRUE, rows |-> IF args.ours.ok THEN args.ours.rows ELSE << >>]
      Call(fn, d) ==
        Aggregation([fn |-> fn, competitors |-> args.competitors, limit |-> 50],
                    Settled(d), inOrder, ourRows, << >>).value
      keywordGaps == Call("getMultiCompetitorKeywordGaps", args.gaps)
      keywordOverlaps == Call("getMultiCompetitorKeywordOverlaps", args.overlaps)
      backlinkGaps == Call("getMultiCompetitorBacklinkGaps", args.refdomains)
      Multiple(list) == SelectSeq(list, LAMBDA g : g.competitorCount >= 2)
      opportunities == Multiple(keywordGaps)
  IN  [competitorsAnalyzed |-> args.competitors,
       keywordGaps |-> keywordGaps,
       keywordOverlaps |-> keywordOverlaps,
       backlinkGaps |-> backlinkGaps,
       summary |->
         [totalKeywordGaps |-> Len(keywordGaps),
          keywordGapsMultipleCompetitors |-> Len(Multiple(keywordGaps)),
          totalBacklinkGaps |-> Len(backlinkGaps),
          backlinkGapsMultipleCompetitors |-> Len(Multiple(backlinkGaps)),
          potentialTrafficOpportunity |->
            SumOf([i \in DOMAIN opportunities |-> Round(opportunities[i].volume, 10)])]]

\* a call of one aggregator, or a call of getMultiCompetitorAnalysis with the
\* answers to the fetches of its three aggregators
InitAggregator ==
  /\ IdleClient
  /\ \/ /\ \E fn \in AggregatorFns :
             \E cs \in CompetitorsOf(fn), l \in Limits, o \in OursOf(fn) :
               \E d \in [DOMAIN cs -> ProviderAnswers(RowsOf(fn), MaxRows)] :
                 callArgs = [fn |-> fn, competitors |-> cs, data |-> d, ours |-> o, limit |-> l]
        /\ agg = [NoAggregation EXCEPT
                    !.settled = [i \in DOMAIN callArgs.competitors |->
                                   [done |-> FALSE, rows |-> << >>]]]
     \/ /\ \E cs \in CompetitorLists :
             \E g1 \in ProviderAnswers(
                          {[keyword |-> "shoes", volume |-> 15, difficulty |-> 30, competitor_position |-> 5],
                           [keyword |-> "boots", volume |-> 1000, difficulty |-> 40, competitor_position |-> 4],
                           [keyword |-> "socks", volume |-> 24, difficulty |-> 10, competitor_position |-> 7]},
                          MaxRows),
                g2 \in ProviderAnswers(
                          {[keyword |-> "shoes", volume |-> 15, difficulty |-> 30, competitor_position |-> 2],
                           [keyword |-> "socks", volume |-> 24, difficulty |-> 10, competitor_position |-> 1]}, 1),
                o \in [DOMAIN cs -> ProviderAnswers(
                          {[keyword |-> "shoes", volume |-> 1000, ourPosition |-> 3, competitorPosition |-> 2],
                           [keyword |-> "boots", volume |-> 1000, ourPosition |-> 1, competitorPosition |-> 8]}, 1)],
                r \in [DOMAIN cs -> ProviderAnswers(
                          {[domain |-> "blog.org", domain_inlink_rank |-> 50, backlinks |-> 3],
                           [domain |-> "news.net", domain_inlink_rank |-> 50, backlinks |-> 2]}, 1)],
                ours \in {Rejected, [ok |-> TRUE, rows |-> <<[domain |-> "news.net", domain_inlink_rank |-> 50, backlinks |-> 2]>>]} :
               callArgs = [fn |-> "getMultiCompetitorAnalysis", competitors |-> cs,
                           gaps |-> <<g1, g2>>, overlaps |-> o, refdomains |-> r, ours |-> ours]
        /\ agg = NoAggregation
  /\ callResult = [done |-> FALSE]

\* getBacklinksRefDomains(ourDomain) settles: the provider's rows, or none
\* when the provider answered with an error
OurFetchSettles ==
  /\ FetchesOurs(callArgs.fn)
  /\ ~callResult.done
  /\ ~agg.ours.done
  /\ callArgs.fn = "getBacklinkGap" => agg.settled[1].done
  /\ agg' = [agg EXCEPT !.ours = [done |-> TRUE,
                                  rows |-> IF callArgs.ours.ok THEN callArgs.ours.rows ELSE << >>]]
  /\ UNCHANGED <<callArgs, callResult, limiterVars, gatewayVars, runVars>>

\* the fetch for competitor i settles: the provider's rows, or none when the
\* provider answered with an error
CompetitorFetchSettles(i) ==
  /\ callArgs.fn \in AggregatorFns
  /\ ~callResult.done
  /\ i \in DOMAIN agg.settled
  /\ ~agg.settled[i].done
  /\ callArgs.fn = "getMultiCompetitorBacklinkGaps" => agg.ours.done
  /\ agg' = [agg EXCEPT !.settled[i] = [done |-> TRUE,
                                        rows |-> IF callArgs.data[i].ok
                                                 THEN callArgs.data[i].rows ELSE << >>],
                        !.order = Append(@, i)]
  /\ UNCHANGED <<callArgs, callResult, limiterVars, gatewayVars, runVars>>

\* every fetch has settled: fold, sort, slice and return
Aggregate ==
  /\ callArgs.fn \in AggregatorFns
  /\ ~callResult.done
  /\ \A i \in DOMAIN agg.settled : agg.settled[i].done
  /\ FetchesOurs(callArgs.fn) => agg.ours.done
  /\ LET a == Aggregation(callArgs, agg.settled, agg.order, agg.ours, agg.map)
     IN /\ callResult' = [done |-> TRUE, value |-> a.value]
        /\ agg' = [agg EXCEPT !.map = a.map, !.aggregated = a.aggregated, !.calls = 1]
  /\ UNCHANGED <<callArgs, limiterVars, gatewayVars, runVars>>

\* the same call is made once more; its fetches yield the same result sets
\* and complete in any order
CallAgain ==
  /\ callResult.done
  /\ agg.calls = 1
  /\ \E order \in Permutations(DOMAIN agg.settled) :
       LET a == Aggregation(callArgs, agg.settled, order, agg.ours, agg.map)
       IN /\ callResult' = [done |-> TRUE, value |-> a.value]
          /\ agg' = [agg EXCEPT !.map = a.map, !.aggregated = a.aggregated, !.calls = 2,
                                !.order = order, !.first = callResult.value]
  /\ UNCHANGED <<callArgs, limiterVars, gatewayVars, runVars>>

\* getMultiCompetitorAnalysis returns
CallGetMultiCompetitorAnalysis ==
  /\ callArgs.fn = "getMultiCompetitorAnalysis"
  /\ ~callResult.done
  /\ callResult' = [done |-> TRUE, value |-> getMultiCompetitorAnalysis(callArgs)]
  /\ UNCHANGED <<callArgs, agg, limiterVars, gatewayVars, runVars>>

NextAggregator ==
  \/ OurFetchSettles
  \/ \E i \in DOMAIN agg.settled : CompetitorFetchSettles(i)
  \/ Aggregate
  \/ CallAgain
  \/ CallGetMultiCompetitorAnalysis

AggregatorSpec == InitAggregator /\ [][NextAggregator]_vars

\* --- properties of the aggregators ---
\* the contributions of a finished call: (competitor index, row index) of
\* every row the fetches returned
Contributions == {<<i, k>> \in (DOMAIN agg.settled) \X (1..(MaxRows + 1)) : k <= Len(agg.settled[i].rows)}

ContributedRow(c) == agg.settled[c[1]].rows[c[2]]

GapsReturned == callArgs.fn = "getMultiCompetitorKeywordGaps" /\ callResult.done

\* C14: in the keyword-gap aggregation, before truncation, every keyword of
\* the result sets has exactly one entry; its volume and difficulty are the
\* maxima over the keyword's contributions, its competitors list holds one
\* (domain, position) element per contribution, competitorCount is the length
\* of the list, avgPosition the rounded mean and bestPosition the minimum of
\* the listed positions.
KeywordGapFold ==
  GapsReturned =>
    LET Of(kw) == {c \in Contributions : ContributedRow(c).keyword = kw}
        ElementOf(c) == [domain |-> callArgs.competitors[c[1]],
                         position |-> ContributedRow(c).competitor_position]
    IN /\ \A c \in Contributions :
            Cardinality({e \in DOMAIN agg.aggregated :
                           agg.aggregated[e].keyword = ContributedRow(c).keyword}) = 1
       /\ \A e \in DOMAIN agg.aggregated :
            LET entry == agg.aggregated[e]
                mine == Of(entry.keyword)
            IN /\ mine # {}
               /\ \E c \in mine : entry.volume = ContributedRow(c).volume
               /\ \A c \in mine : entry.volume >= ContributedRow(c).volume
               /\ \E c \in mine : entry.difficulty = ContributedRow(c).difficulty
               /\ \A c \in mine : entry.difficulty >= ContributedRow(c).difficulty
               /\ Len(entry.competitors) = Cardinality(mine)
               /\ \A c \in mine :
                    Cardinality({k \in DOMAIN entry.competitors : entry.competitors[k] = ElementOf(c)})
                      = Cardinality({d \in mine : ElementOf(d) = ElementOf(c)})
               /\ entry.competitorCount = Len(entry.competitors)
               /\ 2 * entry.avgPosition * entry.competitorCount
                    <= 2 * SumOf(PositionsOf(entry.competitors)) + entry.competitorCount
               /\ 2 * SumOf(PositionsOf(entry.competitors)) + entry.competitorCount
                    < 2 * (entry.avgPosition + 1) * entry.competitorCount
               /\ \E k \in DOMAIN entry.competitors : entry.bestPosition = entry.competitors[k].position
               /\ \A k \in DOMAIN entry.competitors : entry.bestPosition <= entry.competitors[k].position

\* competitor A reports shoes at 1000/30 in position 5, competitor B at
\* 1200/35 in position 2: one entry with 1200, 35, two competitors,
\* avgPosition 4 and bestPosition 2
KeywordGapFoldWitness ==
  /\ GapsReturned
  /\ agg.settled[1].rows =
       <<[keyword |-> "shoes", volume |-> 1000, difficulty |-> 30, competitor_position |-> 5]>>
  /\ agg.settled[2].rows =
       <<[keyword |-> "shoes", volume |-> 1200, difficulty |-> 35, competitor_position |-> 2]>>
  /\ Len(agg.aggregated) = 1
  /\ agg.aggregated[1].volume = 1200
  /\ agg.aggregated[1].difficulty = 35
  /\ agg.aggregated[1].competitorCount = 2
  /\ agg.aggregated[1].avgPosition = 4
  /\ agg.aggregated[1].bestPosition = 2

OverlapsReturned == callArgs.fn = "getMultiCompetitorKeywordOverlaps" /\ callResult.done

\* C15 (as claimed): in the output of getMultiCompetitorKeywordOverlaps every
\* competitor listed under a keyword has a position strictly smaller than
\* that entry's ourPosition; a record with competitorPosition >= ourPosition
\* contributes nothing, and a keyword all of whose records fail the filter
\* has no entry.
OverlapFilter ==
  OverlapsReturned =>
    LET AdmittedOf(kw) == {c \in Contributions : /\ ContributedRow(c).keyword = kw
                                                  /\ OverlapAdmitted(ContributedRow(c))}
    IN \A e \in DOMAIN agg.aggregated :
         LET entry == agg.aggregated[e]
         IN /\ \A k \in DOMAIN entry.competitors :
                 entry.competitors[k].position < entry.ourPosition
            /\ AdmittedOf(entry.keyword) # {}
            /\ Len(entry.competitors) = Cardinality(AdmittedOf(entry.keyword))

BacklinkGapsReturned == FetchesOurs(callArgs.fn) /\ callResult.done

\* C16: no entry of the output of getMultiCompetitorBacklinkGaps, nor of
\* getBacklinkGap, has a domain that is among the referring domains fetched
\* for our own domain, however many competitors have that domain.
BacklinkExclusion ==
  BacklinkGapsReturned =>
    \A e \in DOMAIN callResult.value :
      \A k \in DOMAIN agg.ours.rows : callResult.value[e].domain # agg.ours.rows[k].domain

\* blog.org refers to us and to both competitors, news.net to one competitor
\* only: the output holds news.net and not blog.org
BacklinkExclusionWitness ==
  /\ callArgs.fn = "getMultiCompetitorBacklinkGaps"
  /\ callResult.done
  /\ \E k \in DOMAIN agg.ours.rows : agg.ours.rows[k].domain = "blog.org"
  /\ \A i \in DOMAIN agg.settled :
       \E k \in DOMAIN agg.settled[i].rows : agg.settled[i].rows[k].domain = "blog.org"
  /\ \E i \in DOMAIN agg.settled :
       \E k \in DOMAIN agg.settled[i].rows : agg.settled[i].rows[k].domain = "news.net"
  /\ Len(callResult.value) = 1
  /\ callResult.value[1].domain = "news.net"

MultiCompetitorReturned ==
  callArgs.fn \in AggregatorFns \ {"getBacklinkGap"} /\ callResult.done

\* the secondary sort key of the function called
SecondaryOf(e) ==
  IF callArgs.fn = "getMultiCompetitorBacklinkGaps" THEN e.domainInlinkRank ELSE e.volume

\* a sorts strictly before b
SortsBefore(a, b) ==
  \/ a.competitorCount > b.competitorCount
  \/ a.competitorCount = b.competitorCount /\ SecondaryOf(a) > SecondaryOf(b)

\* C17: the output of each multi-competitor aggregator is ordered by
\* competitorCount descending and, among equal counts, by the secondary key
\* descending; it consists of min(limit, number of aggregated entries)
\* entries of the aggregate, and no omitted entry sorts strictly before an
\* included one.
SortAndTruncation ==
  MultiCompetitorReturned =>
    LET out == callResult.value
        included == {out[i] : i \in DOMAIN out}
        all == {agg.aggregated[i] : i \in DOMAIN agg.aggregated}
    IN /\ \A i, j \in DOMAIN out : i < j => ~SortsBefore(out[j], out[i])
       /\ Len(out) = Min(callArgs.limit, Len(agg.aggregated))
       /\ Cardinality(included) = Len(out)
       /\ included \subseteq all
       /\ \A a \in all \ included : \A b \in included : ~SortsBefore(a, b)

\* two entries were aggregated, the second one with more competitors; with
\* limit 1 the output is that second entry alone
SortAndTruncationWitness ==
  /\ MultiCompetitorReturned
  /\ callArgs.limit = 1
  /\ Len(agg.aggregated) = 2
  /\ agg.aggregated[2].competitorCount > agg.aggregated[1].competitorCount
  /\ callResult.value = <<agg.aggregated[2]>>

\* a and b are tied on both sort keys
Tied(a, b) == a.competitorCount = b.competitorCount /\ SecondaryOf(a) = SecondaryOf(b)

\* the position at which the entry was inserted into the aggregate
InsertionIndex(e) == CHOOSE i \in DOMAIN agg.aggregated : agg.aggregated[i] = e

BestShoes == <<"b", "e", "s", "t", " ", "s", "h", "o", "e", "s">>

BestShoesCapitalized == <<"B", "e", "s", "t", " ", "S", "h", "o", "e", "s">>

Boots == <<"b", "o", "o", "t", "s">>

\* a variant that compares the texts as they are
ToLowerCase_identity(text) == text

\* prompt.toLowerCase()
ToLowerCase(text) ==
  [i \in DOMAIN text |-> CASE text[i] = "B" -> "b" [] text[i] = "S" -> "s" [] OTHER -> text[i]]

promptsPerEngine == 8

\* prompts as getAISearchPromptsByBrand / getAISearchPromptsByTarget map them
\* from the provider's answer, before the engine is attached
PromptRows == {
  [prompt |-> BestShoes, type |-> "brand", volume |-> 100, answer_snippet |-> "s1"],
  [prompt |-> BestShoesCapitalized, type |-> "link", volume |-> 200, answer_snippet |-> "s2"],
  [prompt |-> BestShoes, type |-> "brand_link", volume |-> 0, answer_snippet |-> "s3"],
  [prompt |-> Boots, type |-> "link", volume |-> 300, answer_snippet |-> "s4"]
}

\* the texts of an answer with more prompts than an engine may keep
LongTexts == [k \in 1..(promptsPerEngine + 1) |->
                <<"q", <<"1", "2", "3", "4", "5", "6", "7", "8", "9">>[k]>>]

\* enginesWithPresence
EngineLists == {<<"x">>, <<"x", "y">>}

\* promptsPromises: for each engine the brand-scoped fetch, then the
\* target-scoped fetch
PromptFetches(engines) == 1..(2 * Len(engines))

EngineOfFetch(engines, k) == engines[(k + 1) \div 2]

\* the rows of the answer to fetch k among the prompts the provider holds
RowsForFetch(flat, k) ==
  LET mine == SelectSeq(flat, LAMBDA x : x[1] = k)
  IN [i \in DOMAIN mine |-> mine[i][2]]

\* a variant in which a duplicate hands its type to the existing entry
PromptFoldStep_replace(map, p) ==
  LET hits == {i \in DOMAIN map : map[i].engine = p.engine}
      engineList == IF hits = {} THEN << >> ELSE map[CHOOSE i \in hits : TRUE].list
      same == {j \in DOMAIN engineList :
                 ToLowerCase(engineList[j].prompt) = ToLowerCase(p.prompt)}
      existingIndex == CHOOSE j \in same : \A k \in same : j <= k
      merged ==
        IF same = {} THEN Append(engineList, p)
        ELSE [engineList EXCEPT ![existingIndex] = [@ EXCEPT !.type = p.type]]
  IN IF hits = {} THEN Append(map, [engine |-> p.engine, list |-> merged])
     ELSE [map EXCEPT ![CHOOSE i \in hits : TRUE] = [@ EXCEPT !.list = merged]]

\* the body of the loops over promptsResults
PromptFoldStep(map, p) ==
  LET hits == {i \in DOMAIN map : map[i].engine = p.engine}
      engineList == IF hits = {} THEN << >> ELSE map[CHOOSE i \in hits : TRUE].list
      same == {j \in DOMAIN engineList :
                 ToLowerCase(engineList[j].prompt) = ToLowerCase(p.prompt)}
      existingIndex == CHOOSE j \in same : \A k \in same : j <= k
      existing == engineList[existingIndex]
      existingIsBrand == existing.type \in {"brand", "brand_link"}
      newIsLink == p.type \in {"link", "brand_link"}
      existingIsLink == existing.type \in {"link", "brand_link"}
      newIsBrand == p.type \in {"brand", "brand_link"}
      merged ==
        IF same = {} THEN Append(engineList, p)
        ELSE IF (existingIsBrand /\ newIsLink) \/ (existingIsLink /\ newIsBrand)
             THEN [engineList EXCEPT ![existingIndex] = [existing EXCEPT !.type = "brand_link"]]
             ELSE engineList
  IN IF hits = {} THEN Append(map, [engine |-> p.engine, list |-> merged])
     ELSE [map EXCEPT ![CHOOSE i \in hits : TRUE] = [@ EXCEPT !.list = merged]]

RECURSIVE PromptFold(_, _)
PromptFold(map, prompts) ==
  IF prompts = << >> THEN map
  ELSE PromptFold(PromptFoldStep(map, Head(prompts)), Tail(prompts))

\* a variant that leaves the list in insertion order
SortByVolume_unsorted(entries) == entries

\* list.sort((a, b) => (b.volume || 0) - (a.volume || 0)); the sort is stable
SortByVolume(entries) ==
  LET Before(i, j) ==
        \/ entries[i].volume > entries[j].volume
        \/ entries[i].volume = entries[j].volume /\ i < j
      rank(i) == 1 + Cardinality({j \in DOMAIN entries : Before(j, i)})
  IN [k \in DOMAIN entries |-> entries[CHOOSE i \in DOMAIN entries : rank(i) = k]]

\* balancedPrompts: the first promptsPerEngine prompts of each engine
RECURSIVE BalancedPrompts(_)
BalancedPrompts(map) ==
  IF map = << >> THEN << >>
  ELSE Slice(Head(map).list, promptsPerEngine) \o BalancedPrompts(Tail(map))

\* a variant that visits the answers in the order they arrived
PromptsIn_completionOrder(promptsResults) ==
  LET RECURSIVE Arrived(_)
      Arrived(order) ==
        IF order = << >> THEN << >>
        ELSE promptsResults[Head(order)].rows \o Arrived(Tail(order))
  IN Arrived(agg.order)

\* all rows of promptsResults, in the order the loops visit them
PromptsIn(promptsResults) ==
  LET RECURSIVE Visit(_)
      Visit(rest) == IF rest = << >> THEN << >> ELSE Head(rest).rows \o Visit(Tail(rest))
  IN Visit(promptsResults)

\* the provider holds up to MaxPrompts prompts spread over the fetches, or
\* answers one engine's brand-scoped fetch with promptsPerEngine + 1 prompts
\* of volume 0 (no volume in the answer) or 100
InitPrompts ==
  /\ IdleClient
  /\ \/ \E engines \in EngineLists :
          \E flat \in SeqsUpTo(PromptFetches(engines) \X PromptRows, MaxPrompts) :
            /\ \A i \in 1..(Len(flat) - 1) : flat[i][1] <= flat[i + 1][1]
            /\ \E rejected \in SUBSET {k \in PromptFetches(engines) :
                                         \A i \in DOMAIN flat : flat[i][1] # k} :
                 callArgs = [fn |-> "generateReport", engines |-> engines,
                             data |-> [k \in PromptFetches(engines) |->
                                         IF k \in rejected THEN Rejected
                                         ELSE [ok |-> TRUE, rows |-> RowsForFetch(flat, k)]]]
     \/ \E volumes \in [DOMAIN LongTexts -> {0, 100}], target \in ProviderAnswers(PromptRows, 1) :
          callArgs = [fn |-> "generateReport", engines |-> <<"x">>,
                      data |-> <<[ok |-> TRUE,
                                  rows |-> [k \in DOMAIN LongTexts |->
                                              [prompt |-> LongTexts[k], type |-> "brand",
                                               volume |-> volumes[k], answer_snippet |-> "s"]]],
                                 target>>]
  /\ callResult = [done |-> FALSE]
  /\ agg = [NoAggregation EXCEPT
              !.settled = [k \in DOMAIN callArgs.data |-> [done |-> FALSE, rows |-> << >>]]]

\* prompts fetch k settles: the provider's prompts with the engine attached,
\* or none when the provider answered with an error
PromptFetchSettles(k) ==
  /\ callArgs.fn = "generateReport"
  /\ ~callResult.done
  /\ k \in DOMAIN agg.settled
  /\ ~agg.settled[k].done
  /\ agg' = [agg EXCEPT !.settled[k] =
               [done |-> TRUE,
                rows |-> IF callArgs.data[k].ok
                         THEN [i \in DOMAIN callArgs.data[k].rows |->
                                 [prompt |-> callArgs.data[k].rows[i].prompt,
                                  engine |-> EngineOfFetch(callArgs.engines, k),
                                  type |-> callArgs.data[k].rows[i].type,
                                  position |-> i,
                                  volume |-> callArgs.data[k].rows[i].volume,
                                  answer_snippet |-> callArgs.data[k].rows[i].answer_snippet]]
                         ELSE << >>],
                        !.order = Append(@, k)]
  /\ UNCHANGED <<callArgs, callResult, limiterVars, gatewayVars, runVars>>

\* Promise.all has resolved: merge per engine, sort each list by volume, and
\* take the first promptsPerEngine of each
DeduplicatePrompts ==
  /\ callArgs.fn = "generateReport"
  /\ ~callResult.done
  /\ \A k \in DOMAIN agg.settled : agg.settled[k].done
  /\ LET folded == PromptFold(<< >>, PromptsIn(agg.settled))
         promptsByEngine == [i \in DOMAIN folded |->
                               [folded[i] EXCEPT !.list = SortByVolume(@)]]
     IN /\ agg' = [agg EXCEPT !.map = promptsByEngine, !.calls = 1]
        /\ callResult' = [done |-> TRUE, value |-> BalancedPrompts(promptsByEngine)]
  /\ UNCHANGED <<callArgs, limiterVars, gatewayVars, runVars>>

NextPrompts ==
  \/ \E k \in DOMAIN agg.settled : PromptFetchSettles(k)
  \/ DeduplicatePrompts

PromptSpec == InitPrompts /\ [][NextPrompts]_vars

\* the two characters are the same letter
SameLetter(a, b) == a = b \/ {a, b} \in {{"b", "B"}, {"s", "S"}}

EqualIgnoringCase(a, b) == Len(a) = Len(b) /\ \A i \in DOMAIN a : SameLetter(a[i], b[i])

PromptsMerged == callArgs.fn = "generateReport" /\ callResult.done

\* C20: after the merge no engine's prompt list holds two entries whose texts
\* are equal ignoring case; when the brand-scoped answer for an engine holds
\* a prompt of type brand and the target-scoped answer for that engine a
\* prompt of type link whose text is the same ignoring case, the engine's
\* list holds exactly one entry for that text, of type brand_link.
PromptDeduplication ==
  PromptsMerged =>
    /\ \A e \in DOMAIN agg.map :
         \A i, j \in DOMAIN agg.map[e].list :
           i # j => ~EqualIgnoringCase(agg.map[e].list[i].prompt, agg.map[e].list[j].prompt)
    /\ \A i, j \in DOMAIN callResult.value :
         i # j /\ callResult.value[i].engine = callResult.value[j].engine =>
           ~EqualIgnoringCase(callResult.value[i].prompt, callResult.value[j].prompt)
    /\ \A n \in DOMAIN callArgs.engines :
         \A b \in DOMAIN agg.settled[2 * n - 1].rows, t \in DOMAIN agg.settled[2 * n].rows :
           LET brand == agg.settled[2 * n - 1].rows[b]
               link == agg.settled[2 * n].rows[t]
               entries == {i \in DOMAIN callResult.value :
                             /\ callResult.value[i].engine = brand.engine
                             /\ EqualIgnoringCase(callResult.value[i].prompt, brand.prompt)}
           IN brand.type = "brand" /\ link.type = "link"
              /\ EqualIgnoringCase(brand.prompt, link.prompt) =>
                /\ Cardinality(entries) = 1
                /\ \A i \in entries : callResult.value[i].type = "brand_link"

\* engine x answers "best shoes" of type brand to the brand-scoped fetch and
\* "Best Shoes" of type link to the target-scoped fetch: one entry, brand_link
PromptDeduplicationWitness ==
  /\ PromptsMerged
  /\ callArgs.engines = <<"x">>
  /\ agg.settled[1].rows =
       <<[prompt |-> BestShoes, engine |-> "x", type |-> "brand", position |-> 1,
          volume |-> 100, answer_snippet |-> "s1"]>>
  /\ agg.settled[2].rows =
       <<[prompt |-> BestShoesCapitalized, engine |-> "x", type |-> "link", position |-> 1,
          volume |-> 200, answer_snippet |-> "s2"]>>
  /\ callResult.value =
       <<[prompt |-> BestShoes, engine |-> "x", type |-> "brand_link", position |-> 1,
          volume |-> 100, answer_snippet |-> "s1"]>>

\* C24 (as claimed): in every entry of each multi-competitor aggregate each
\* competitor domain appears at most once in the competitors list, and
\* competitorCount is the number of distinct competitors listed.
UnionOfCompetitors ==
  MultiCompetitorReturned =>
    \A e \in DOMAIN agg.aggregated :
      LET entry == agg.aggregated[e]
      IN /\ \A i, j \in DOMAIN entry.competitors :
              i # j => entry.competitors[i].domain # entry.competitors[j].domain
         /\ entry.competitorCount =
              Cardinality({entry.competitors[i].domain : i \in DOMAIN entry.competitors})

\* C30 (as claimed): every entry of the keyword-overlap aggregate has
\* avgCompetitorPosition equal to the rounded mean of its listed competitor
\* positions, positionGap = ourPosition - avgCompetitorPosition, and
\* positionGap >= 1.
OverlapPositionGap ==
  OverlapsReturned =>
    \A e \in DOMAIN agg.aggregated :
      LET entry == agg.aggregated[e]
          total == SumOf(PositionsOf(entry.competitors))
          n == Len(entry.competitors)
      IN /\ 2 * entry.avgCompetitorPosition * n <= 2 * total + n
         /\ 2 * total + n < 2 * (entry.avgCompetitorPosition + 1) * n
         /\ entry.positionGap = entry.ourPosition - entry.avgCompetitorPosition
         /\ entry.positionGap >= 1

\* C21: for every (engine, text ignoring case) the final classification is
\* the one every order of folding the contributing prompts ends with; it is
\* brand_link exactly when the contributions include a brand-side type and a
\* link-side type, and otherwise the type all contributions have; and at
\* every step of the fold an entry that is brand_link stays brand_link.
ClassificationMerge ==
  PromptsMerged =>
    LET all == PromptsIn(agg.settled)
        TypeAfter(prompts, engine, text) ==
          LET folded == PromptFold(<< >>, prompts)
              e == CHOOSE e \in DOMAIN folded : folded[e].engine = engine
              i == CHOOSE i \in DOMAIN folded[e].list :
                     EqualIgnoringCase(folded[e].list[i].prompt, text)
          IN folded[e].list[i].type
    IN \A e \in DOMAIN agg.map : \A i \in DOMAIN agg.map[e].list :
         LET entry == agg.map[e].list[i]
             contributing == SelectSeq(all, LAMBDA c : /\ c.engine = entry.engine
                                                       /\ EqualIgnoringCase(c.prompt, entry.prompt))
             types == {contributing[k].type : k \in DOMAIN contributing}
             brandSide == types \cap {"brand", "brand_link"} # {}
             linkSide == types \cap {"link", "brand_link"} # {}
             firstAt == CHOOSE n \in DOMAIN all :
                          /\ all[n].engine = entry.engine
                          /\ EqualIgnoringCase(all[n].prompt, entry.prompt)
                          /\ \A m \in 1..(n - 1) :
                               ~(/\ all[m].engine = entry.engine
                                 /\ EqualIgnoringCase(all[m].prompt, entry.prompt))
         IN /\ contributing # << >>
            /\ \A f \in Permutations(DOMAIN contributing) :
                 TypeAfter([k \in DOMAIN contributing |-> contributing[f[k]]],
                           entry.engine, entry.prompt) = entry.type
            /\ (entry.type = "brand_link") <=> (brandSide /\ linkSide)
            /\ ~(brandSide /\ linkSide) => types = {entry.type}
            /\ \A n \in firstAt..(Len(all) - 1) :
                 TypeAfter(SubSeq(all, 1, n), entry.engine, entry.prompt) = "brand_link"
                   => TypeAfter(SubSeq(all, 1, n + 1), entry.engine, entry.prompt) = "brand_link"

\* engine x received the text as brand_link and then as brand: the entry is
\* still brand_link
ClassificationMergeWitness ==
  /\ PromptsMerged
  /\ Len(agg.settled[1].rows) = 2
  /\ agg.settled[1].rows[1].type = "brand_link"
  /\ agg.settled[1].rows[2].type = "brand"
  /\ EqualIgnoringCase(agg.settled[1].rows[1].prompt, agg.settled[1].rows[2].prompt)
  /\ Len(agg.map) = 1
  /\ Len(agg.map[1].list) = 1
  /\ agg.map[1].list[1].type = "brand_link"

PerEngineCap ==
  PromptsMerged =>
    /\ \A i \in DOMAIN callResult.value :
         \E e \in DOMAIN agg.map : agg.map[e].engine = callResult.value[i].engine
    /\ \A e \in DOMAIN agg.map :
         LET out == SelectSeq(callResult.value, LAMBDA x : x.engine = agg.map[e].engine)
             included == {out[i] : i \in DOMAIN out}
             all == {agg.map[e].list[i] : i \in DOMAIN agg.map[e].list}
         IN /\ Len(out) <= 8
            /\ Len(out) = Min(8, Len(agg.map[e].list))
            /\ Cardinality(included) = Len(out)
            /\ included \subseteq all
            /\ \A i, j \in DOMAIN out : i < j => out[i].volume >= out[j].volume
            /\ \A o \in all \ included : \A x \in included : o.volume <= x.volume

\* nine prompts of one engine, the first without volume and the others with
\* volume 100: the eight with volume 100 are kept
PerEngineCapWitness ==
  /\ PromptsMerged
  /\ Len(agg.settled[1].rows) = 9
  /\ agg.settled[1].rows[1].volume = 0
  /\ agg.settled[2].rows = << >>
  /\ Len(callResult.value) = 8
  /\ \A i \in DOMAIN callResult.value : callResult.value[i].volume = 100

\* --- generateReport: the progress events ---
\* the percent values of the updateProgress calls, in program order
ProgressValues ==
  <<5, 10, 35, 38, 42, 43, 48, 49, 50, 51, 55, 65, 80, 82, 87, 88, 90, 91, 93, 95, 100>>

\* a variant that reports 100 together with 'Compiling report...'
EmittedAt_early(p) ==
  <<1, 2, 4, 4, 6, 8, 9, 9, 10, 11, 12, 14, 16, 16, 16, 18, 21>>[p]

\* the number of updateProgress calls that precede the await of phase p
EmittedAt(p) ==
  <<1, 2, 4, 4, 6, 8, 9, 9, 10, 11, 12, 14, 16, 16, 16, 18, 20>>[p]

\* the percent values the sink has received: the calls up to the await (or
\* the throw) generateReport is at, and all of them once it has returned
ProgressEvents ==
  SubSeq(ProgressValues, 1,
         IF gstate = "returned" THEN Len(ProgressValues)
         ELSE IF phase = 0 THEN 0 ELSE EmittedAt(phase))

\* C28: the percent values passed to the progress sink are integers in
\* 0..100 that never decrease; every step of a run only appends events; 100
\* is emitted at most once, as the last event, only when the report has been
\* compiled, and never in a run that ends in an error.
ProgressMonotonic ==
  /\ [](/\ \A i \in DOMAIN ProgressEvents : ProgressEvents[i] \in 0..100
        /\ \A i, j \in DOMAIN ProgressEvents : i < j => ProgressEvents[i] <= ProgressEvents[j]
        /\ \A i \in DOMAIN ProgressEvents :
             ProgressEvents[i] = 100 =>
               /\ i = Len(ProgressEvents)
               /\ gstate = "returned"
               /\ report = compileReport(results)
        /\ gstate = "rejected" =>
             \A i \in DOMAIN ProgressEvents : ProgressEvents[i] # 100)
  /\ [][/\ Len(ProgressEvents') >= Len(ProgressEvents)
        /\ SubSeq(ProgressEvents', 1, Len(ProgressEvents)) = ProgressEvents]_vars

\* a run returned after all 21 events, 95 and then 100 last
ProgressMonotonicWitness ==
  /\ gstate = "returned"
  /\ Len(ProgressEvents) = 21
  /\ ProgressEvents[21] = 100
  /\ ProgressEvents[20] = 95
  /\ jpc = "finished"

\* C29: the totalCredits of a compiled report is the sum of the credits of
\* the entries of its apiResponses, the entry of the subscription call made
\* after the total was read included, whichever calls succeeded or failed.
CreditTotal ==
  (callArgs.fn = "compileReport" /\ callResult.done) =>
    callResult.value.totalCredits =
      SumOf([i \in DOMAIN callResult.value.apiResponses |->
               callResult.value.apiResponses[i].credits])

\* the log of the report ends with the entry of the subscription call, which
\* was appended after the total, here 300 credits, had been read
CreditTotalWitness ==
  /\ callArgs.fn = "compileReport"
  /\ callResult.done
  /\ Len(callResult.value.apiResponses) = 3
  /\ callResult.value.apiResponses[3].endpoint = CallSiteEndpoints[3]
  /\ callResult.value.apiResponses[3].credits = 0
  /\ callResult.value.totalCredits > 0

\* ---------------------------------------------------------------------
\* Normalizers of the client (src/lib/credits.ts): one provider answer in,
\* one internal record out.
\* ---------------------------------------------------------------------

\* `data.key || 0`: a field the payload does not carry reads as 0
Field(data, key) == IF key \in DOMAIN data THEN data[key] ELSE 0

\* getBacklinksSummary(target): the request is awaited outside any try, and
\* an answer without a first summary row throws 'No backlinks data returned'
getBacklinksSummary(answer) ==
  IF ~answer.ok THEN [rejected |-> TRUE]
  ELSE IF ~answer.present \/ answer.rows = << >> THEN [rejected |-> TRUE]
  ELSE LET data == answer.rows[1]
       IN  [rejected |-> FALSE,
            value |-> [backlinks |-> Field(data, "backlinks"),
                       backlinks_num |-> Field(data, "backlinks"),
                       refdomains |-> Field(data, "refdomains"),
                       refdomains_num |-> Field(data, "refdomains"),
                       image_backlinks |-> 0]]

\* getBacklinksAuthority(target): the request is awaited outside any try;
\* `response.pages?.[0]` and `page?.field || 0` default what is missing
getBacklinksAuthority(answer) ==
  IF ~answer.ok THEN [rejected |-> TRUE]
  ELSE LET page == IF answer.present /\ answer.rows # << >> THEN answer.rows[1] ELSE << >>
       IN  [rejected |-> FALSE,
            value |-> [domain_inlink_rank |-> Field(page, "domain_inlink_rank"),
                       page_inlink_rank |-> Field(page, "inlink_rank")]]

\* the if / else-if chain of getBacklinksDistribution: the bucket, 1..10, that
\* a row of rank domain_inlink_rank is added to
BucketOf_exclusive(rank) ==
  IF rank < 10 THEN 1
  ELSE IF rank <= 20 THEN 2
  ELSE IF rank <= 30 THEN 3
  ELSE IF rank <= 40 THEN 4
  ELSE IF rank <= 50 THEN 5
  ELSE IF rank <= 60 THEN 6
  ELSE IF rank <= 70 THEN 7
  ELSE IF rank <= 80 THEN 8
  ELSE IF rank <= 90 THEN 9
  ELSE 10

BucketOf(rank) ==
  IF rank <= 10 THEN 1
  ELSE IF rank <= 20 THEN 2
  ELSE IF rank <= 30 THEN 3
  ELSE IF rank <= 40 THEN 4
  ELSE IF rank <= 50 THEN 5
  ELSE IF rank <= 60 THEN 6
  ELSE IF rank <= 70 THEN 7
  ELSE IF rank <= 80 THEN 8
  ELSE IF rank <= 90 THEN 9
  ELSE 10

\* getBacklinksDistribution(target): the ten buckets '0-10', '11-20', ...,
\* '91-100' as a sequence; `response.histogram || []` is walked row by row
\* and the catch returns ten zeros
getBacklinksDistribution(answer) ==
  LET dist0 == [b \in 1..10 |-> 0]
      RECURSIVE Walk(_, _)
      Walk(dist, histogram) ==
        IF histogram = << >> THEN dist
        ELSE LET item == Head(histogram)
                 b == BucketOf(item.domain_inlink_rank)
             IN  Walk([dist EXCEPT ![b] = @ + Field(item, "refdomains")], Tail(histogram))
  IN  IF ~answer.ok THEN [rejected |-> FALSE, value |-> dist0]
      ELSE [rejected |-> FALSE,
            value |-> Walk(dist0, IF answer.present THEN answer.rows ELSE << >>)]

\* the answers a normalizer is given: the request fails, the payload lacks
\* the list, or the list has zero or more rows, each with or without its
\* numeric fields; the first histogram row takes every rank of 0..100
InitNormalizers ==
  /\ IdleClient
  /\ \/ \E K \in SUBSET {"backlinks", "refdomains"} :
          \E rows \in SeqsUpTo([K -> {7}], 1), ok \in BOOLEAN, present \in BOOLEAN :
             /\ ok \/ (~present /\ rows = << >>)
             /\ present \/ rows = << >>
             /\ callArgs = [fn |-> "getBacklinksSummary",
                            answer |-> [ok |-> ok, present |-> present, rows |-> rows]]
     \/ \E K \in SUBSET {"domain_inlink_rank", "inlink_rank"} :
          \E rows \in SeqsUpTo([K -> {40}], 1), ok \in BOOLEAN, present \in BOOLEAN :
             /\ ok \/ (~present /\ rows = << >>)
             /\ present \/ rows = << >>
             /\ callArgs = [fn |-> "getBacklinksAuthority",
                            answer |-> [ok |-> ok, present |-> present, rows |-> rows]]
     \/ \E ok \in BOOLEAN :
          callArgs = [fn |-> "getBacklinksDistribution",
                      answer |-> [ok |-> ok, present |-> FALSE, rows |-> << >>]]
     \/ \E rank \in 0..100, K \in {{"domain_inlink_rank"}, {"domain_inlink_rank", "refdomains"}} :
          \E count \in {1, 3},
             more \in SeqsUpTo({[domain_inlink_rank |-> 11, refdomains |-> 3],
                                [domain_inlink_rank |-> 10, refdomains |-> 1],
                                [domain_inlink_rank |-> 100, refdomains |-> 3]}, MaxRows - 1) :
             callArgs = [fn |-> "getBacklinksDistribution",
                         answer |-> [ok |-> TRUE, present |-> TRUE,
                                     rows |-> <<[k \in K |-> IF k = "refdomains" THEN count ELSE rank]>>
                                              \o more]]
  /\ callResult = [done |-> FALSE]
  /\ agg = NoAggregation

\* getBacklinksSummary(target) settles
CallGetBacklinksSummary ==
  /\ callArgs.fn = "getBacklinksSummary"
  /\ ~callResult.done
  /\ callResult' = [done |-> TRUE] @@ getBacklinksSummary(callArgs.answer)
  /\ UNCHANGED <<callArgs, agg, limiterVars, gatewayVars, runVars>>

\* getBacklinksAuthority(target) settles
CallGetBacklinksAuthority ==
  /\ callArgs.fn = "getBacklinksAuthority"
  /\ ~callResult.done
  /\ callResult' = [done |-> TRUE] @@ getBacklinksAuthority(callArgs.answer)
  /\ UNCHANGED <<callArgs, agg, limiterVars, gatewayVars, runVars>>

\* getBacklinksDistribution(target) settles
CallGetBacklinksDistribution ==
  /\ callArgs.fn = "getBacklinksDistribution"
  /\ ~callResult.done
  /\ callResult' = [done |-> TRUE] @@ getBacklinksDistribution(callArgs.answer)
  /\ UNCHANGED <<callArgs, agg, limiterVars, gatewayVars, runVars>>

NextNormalizers ==
  \/ CallGetBacklinksSummary
  \/ CallGetBacklinksAuthority
  \/ CallGetBacklinksDistribution

NormalizerSpec == InitNormalizers /\ [][NextNormalizers]_vars

\* C23: a normalizer never raises: whatever the provider answers (a failed
\* request, a payload without its list, an empty list, a row without its
\* fields) the call returns a value, and that value is the all-zero default
\* when the request failed or the payload carries no row.
NormalizersNeverRaise ==
  (callResult.done /\ callArgs.fn \in {"getBacklinksSummary", "getBacklinksAuthority",
                                       "getBacklinksDistribution"}) =>
     /\ ~callResult.rejected
     /\ (~callArgs.answer.ok \/ callArgs.answer.rows = << >>) =>
           \A k \in DOMAIN callResult.value : callResult.value[k] = 0

\* the rows of a histogram whose rank lies in the range of bucket b:
\* 0..10 for the first bucket, 10(b-1)+1 .. 10b for the others
RowsInRange(histogram, b) ==
  SelectSeq(histogram,
            LAMBDA item : /\ item.domain_inlink_rank >= (IF b = 1 THEN 0 ELSE 10 * (b - 1) + 1)
                          /\ item.domain_inlink_rank <= 10 * b)

\* the refdomains counts of a histogram, row by row
CountsOf(histogram) == [i \in DOMAIN histogram |-> Field(histogram[i], "refdomains")]

\* C25: getBacklinksDistribution adds the count of every histogram row to
\* exactly one of the ten buckets 0-10, 11-20, ..., 91-100, the one whose range
\* holds the row's rank, for every rank of 0..100: each bucket is the sum of
\* the counts of the rows in its range, the buckets sum to the sum of all
\* counts, and a failed fetch returns ten zeros.
DistributionBuckets ==
  (callResult.done /\ callArgs.fn = "getBacklinksDistribution") =>
     LET histogram == callArgs.answer.rows
         dist == callResult.value
     IN  /\ ~callResult.rejected
         /\ DOMAIN dist = 1..10
         /\ \A i \in DOMAIN histogram :
               Cardinality({b \in 1..10 : RowsInRange(<<histogram[i]>>, b) # << >>}) = 1
         /\ callArgs.answer.ok =>
               /\ \A b \in 1..10 : dist[b] = SumOf(CountsOf(RowsInRange(histogram, b)))
               /\ SumOf(dist) = SumOf(CountsOf(histogram))
         /\ ~callArgs.answer.ok => dist = [b \in 1..10 |-> 0]

\* a rank on the edge of the first bucket and one just above it land in
\* buckets 1 and 2
DistributionBucketsWitness ==
  /\ callResult.done
  /\ callArgs.fn = "getBacklinksDistribution"
  /\ callArgs.answer.ok
  /\ Len(callArgs.answer.rows) = 2
  /\ callArgs.answer.rows[1] = [domain_inlink_rank |-> 10, refdomains |-> 1]
  /\ callArgs.answer.rows[2] = [domain_inlink_rank |-> 11, refdomains |-> 3]
  /\ callResult.value[1] = 1
  /\ callResult.value[2] = 3

\* Math.round(volume * 0.1) stated by its bounds: the integer r with
\* 10r - 5 <= volume < 10r + 5
TenthRounded(volume) == CHOOSE r \in 0..volume : 10 * r <= volume + 5 /\ volume + 5 < 10 * r + 10

\* C26: in the result of getMultiCompetitorAnalysis, totalKeywordGaps and
\* totalBacklinkGaps are the lengths of the keyword-gap and backlink-gap
\* lists, the two ...MultipleCompetitors figures count the entries of those
\* lists with competitorCount >= 2, and potentialTrafficOpportunity is the sum
\* of round(volume * 0.1) over the keyword-gap entries with
\* competitorCount >= 2; when every fetch fails the five figures are 0 and
\* the three lists are empty.
AnalysisSummary ==
  (callResult.done /\ callArgs.fn = "getMultiCompetitorAnalysis") =>
     LET analysis == callResult.value
         summary == analysis.summary
         shared(list) == {i \in DOMAIN list : list[i].competitorCount >= 2}
         RECURSIVE Total(_)
         Total(S) == IF S = {} THEN 0
                     ELSE LET i == CHOOSE i \in S : TRUE
                          IN  TenthRounded(analysis.keywordGaps[i].volume) + Total(S \ {i})
         failed == /\ \A i \in DOMAIN callArgs.competitors :
                         /\ ~callArgs.gaps[i].ok
                         /\ ~callArgs.overlaps[i].ok
                         /\ ~callArgs.refdomains[i].ok
                   /\ ~callArgs.ours.ok
     IN  /\ summary.totalKeywordGaps = Len(analysis.keywordGaps)
         /\ summary.totalBacklinkGaps = Len(analysis.backlinkGaps)
         /\ summary.keywordGapsMultipleCompetitors = Cardinality(shared(analysis.keywordGaps))
         /\ summary.backlinkGapsMultipleCompetitors = Cardinality(shared(analysis.backlinkGaps))
         /\ summary.potentialTrafficOpportunity = Total(shared(analysis.keywordGaps))
         /\ failed =>
               /\ analysis.keywordGaps = << >>
               /\ analysis.keywordOverlaps = << >>
               /\ analysis.backlinkGaps = << >>
               /\ \A k \in DOMAIN summary : summary[k] = 0

\* two competitors reach "shoes" (volume 15, a tenth of which rounds up to 2)
\* and one reaches "boots": two gaps, one of them shared, opportunity 2
AnalysisSummaryWitness ==
  /\ callResult.done
  /\ callArgs.fn = "getMultiCompetitorAnalysis"
  /\ callResult.value.summary.totalKeywordGaps = 2
  /\ callResult.value.summary.keywordGapsMultipleCompetitors = 1
  /\ callResult.value.summary.potentialTrafficOpportunity = 2
  /\ callResult.value.summary.totalBacklinkGaps = 1
  /\ callResult.value.summary.backlinkGapsMultipleCompetitors = 1

====
